---------------------------- MODULE Spec2Model ----------------------------
(***************************************************************************)
(* Model of the Moa ESC controller firmware (jetsonToESCControl): the      *)
(* throttle ramp controller, the devices facade, the safety state machine  *)
(* and its dispatcher, the event queue with its producers, and the button  *)
(* input component.                                                        *)
(***************************************************************************)
EXTENDS Integers, Sequences, FiniteSets, TLC

VARIABLES
    state,      \* MoaStateMachine::_state, as the name of the active state
    esc,        \* ESCController fields plus the value last given to ledcWrite
    timers,     \* MoaDevicesManager::_timers[id]: created / active
    devQueue,   \* MoaDevicesManager::_eventQueue != nullptr
    queue,      \* the FreeRTOS event queue (ControlCommand records)
    last,       \* history: the event ControlTask has just handled, the state it was
                \* handled in, the onEnter calls made and the outcome of the LED port
                \* writes; forgotten when the next event is enqueued
    alarm,      \* history: detectors whose alarm event was consumed and not yet cleared
    api,        \* history: the ESCController command called last, whether a ramp above
                \* min_duty was in progress then, and whether a tick has followed
    rc,         \* stop()/updateThrottle() interleaving: program counters and locals
    busg,       \* history: events created / dropped / handled (sequence-tagged ones)
    curState,   \* MoaCurrentControl::_state
    btn,        \* MoaButtonControl::_buttons[i]
    pin,        \* physical button contacts (TRUE = pressed)
    now,        \* millis()
    bhist,      \* history of the button component (events per press, last read)
    det,        \* the three threshold detectors: sample buffer, counters, zone
    dhist,      \* history of the detector being followed (calls, readings, events)
    tmr,        \* the timer service: its clock, the deadline of each timer, and the
                \* history of the timer API (last call, its result, expiries per start)
    mcp,        \* MoaMcpDevice: the holder of _mutex and, per task, the operation it
                \* is in, its position in it, what it returned and whether it used the bus
    ind,        \* MoaDevicesManager indicator fields (_lastBattLevel, _lastOverheat,
                \* _lastOvercurrent, _boardLocked), MoaLedControl::_configModeActive,
                \* and whether the port expander mutex can no longer be taken
    io          \* the IO task inside processInterrupt(): its position, the time and
                \* port value it sampled, the expander's INTA line, and the history
                \* of the edges since the last read of the port

vars == <<state, esc, timers, devQueue, queue, last, alarm, api, rc, busg,
          curState, btn, pin, now, bhist, det, dhist, tmr, mcp, ind, io>>

-----------------------------------------------------------------------------
(* Program constants *)

CONTROL_TYPE_TIMER == 100
CONTROL_TYPE_TEMPERATURE == 101
CONTROL_TYPE_BATTERY == 102
CONTROL_TYPE_CURRENT == 103
CONTROL_TYPE_BUTTON == 104

COMMAND_TEMP_CROSSED_ABOVE == 1
COMMAND_TEMP_CROSSED_BELOW == 2
COMMAND_BATT_LEVEL_HIGH == 1
COMMAND_BATT_LEVEL_MEDIUM == 2
COMMAND_BATT_LEVEL_LOW == 3
COMMAND_CURRENT_OVERCURRENT == 1
COMMAND_CURRENT_NORMAL == 2
COMMAND_CURRENT_REVERSE_OVERCURRENT == 3
COMMAND_BUTTON_STOP == 1
COMMAND_BUTTON_25 == 2
COMMAND_BUTTON_50 == 3
COMMAND_BUTTON_75 == 4
COMMAND_BUTTON_100 == 5
BUTTON_EVENT_PRESS == 1
BUTTON_EVENT_LONG_PRESS == 2
BUTTON_EVENT_RELEASE == 3
BUTTON_EVENT_VERY_LONG_PRESS == 4

TIMER_ID_THROTTLE == 0
TIMER_ID_FULL_THROTTLE == 1
MOA_TIMER_MAX_INSTANCES == 8
ESC_25_TIME == 240000
ESC_50_TIME == 180000
ESC_75_TIME == 90000
ESC_100_TIME == 15000
ESC_75_TIME_100 == 45000
ESC_ECO_MODE == 25
ESC_PADDLE_MODE == 50
ESC_BREAKING_MODE == 75
ESC_FULL_THROTTLE_MODE == 100

ESC_PWM_FREQUENCY == 50
ESC_PULSE_MIN_US == 1000
ESC_PULSE_MAX_US == 2000
ESC_RESOLUTION == 10
ESC_RAMP_RATE == 200
TASK_IO_PERIOD_MS == 20
EVENT_QUEUE_SIZE == 16

-----------------------------------------------------------------------------
(* Fixed-width integer arithmetic of the target (uint16_t, int16_t, uint8_t) *)

U16(x) == x % 65536
S16(x) == LET m == x % 65536 IN IF m >= 32768 THEN m - 65536 ELSE m
U8(x) == x % 256
Abs(x) == IF x < 0 THEN -x ELSE x
\* C integer division truncates toward zero
CDiv(a, b) == IF (a < 0) = (b < 0) THEN Abs(a) \div Abs(b) ELSE -(Abs(a) \div Abs(b))

-----------------------------------------------------------------------------
(* ESCController *)

maxDuty == 2 ^ ESC_RESOLUTION - 1
periodUs == 1000000 \div ESC_PWM_FREQUENCY
minThrottle == U16((ESC_PULSE_MIN_US * maxDuty) \div periodUs)
maxThrottle == U16((ESC_PULSE_MAX_US * maxDuty) \div periodUs)

\* State after the constructor and begin(): begin() ends with stop().
ESCController ==
    [throttle |-> minThrottle, currentThrottle |-> minThrottle,
     targetThrottle |-> minThrottle, rampStep |-> 1, ramping |-> FALSE,
     duty |-> minThrottle]

writeThrottle(e) == [e EXCEPT !.duty = e.throttle]

setThrottle(e, throttle) ==
    LET t == IF throttle < minThrottle THEN minThrottle
             ELSE IF throttle > maxThrottle THEN maxThrottle
             ELSE throttle
    IN writeThrottle([e EXCEPT !.throttle = t, !.currentThrottle = t])

\* stop() that leaves the ramping flag alone
stopKeepsRamp(e) == setThrottle(e, minThrottle)

stop(e) == setThrottle([e EXCEPT !.ramping = FALSE], minThrottle)

\* updateThrottle that keeps the stepped value when it reaches the target
updateThrottleOvershoot(e) ==
    IF ~e.ramping THEN e
    ELSE LET c1 == U16(e.currentThrottle + e.rampStep)
             arrived == IF e.rampStep > 0 THEN c1 >= e.targetThrottle
                        ELSE IF e.rampStep < 0 THEN c1 <= e.targetThrottle
                        ELSE TRUE
         IN writeThrottle([e EXCEPT !.currentThrottle = c1,
                                    !.ramping = IF arrived THEN FALSE ELSE @,
                                    !.throttle = c1])

updateThrottle(e) ==
    IF ~e.ramping THEN e
    ELSE LET c1 == U16(e.currentThrottle + e.rampStep)
             arrived == IF e.rampStep > 0 THEN c1 >= e.targetThrottle
                        ELSE IF e.rampStep < 0 THEN c1 <= e.targetThrottle
                        ELSE TRUE
             c2 == IF arrived THEN e.targetThrottle ELSE c1
         IN writeThrottle([e EXCEPT !.currentThrottle = c2,
                                    !.ramping = IF arrived THEN FALSE ELSE @,
                                    !.throttle = c2])

setRampThrottle(e, rampTime, targetThrottle) ==
    LET t == IF targetThrottle > maxThrottle THEN maxThrottle ELSE targetThrottle
        rt == IF rampTime > 0 THEN rampTime ELSE 1
        s0 == S16(CDiv(S16(t - e.currentThrottle), S16(rt)))
        s1 == IF s0 = 0 THEN (IF t > e.currentThrottle THEN 1 ELSE -1) ELSE s0
    IN IF t = e.currentThrottle
       THEN [e EXCEPT !.targetThrottle = t, !.ramping = FALSE]
       ELSE [e EXCEPT !.targetThrottle = t, !.rampStep = s1, !.ramping = TRUE]

\* rampSteps = (uint16_t)(|percent - currentPercent| * 1000 / (rampRate * tickPeriodMs)),
\* with currentPercent = (current - min) * 100 / range.  The float arithmetic is
\* taken as exact and computed over the common denominator `range`;
\* rampRate * tickPeriodMs is a multiple of 1000, so the factor 1000 is cancelled.
rampStepsFor(e, percentTimesRange) ==
    LET range == U16(maxThrottle - minThrottle)
        num == Abs(percentTimesRange - (e.currentThrottle - minThrottle) * 100)
        steps == U16(num \div (range * ((ESC_RAMP_RATE * TASK_IO_PERIOD_MS) \div 1000)))
    IN IF steps < 1 THEN 1 ELSE steps

setThrottlePercent(e, percent) ==
    LET p == IF percent > 100 THEN 100 ELSE percent
        range == U16(maxThrottle - minThrottle)
        targetDuty == U16(minThrottle + U16((p * range) \div 100))
    IN setRampThrottle(e, rampStepsFor(e, p * range), targetDuty)

setThrottleDuty(e, duty) ==
    LET d == IF duty < minThrottle THEN minThrottle
             ELSE IF duty > maxThrottle THEN maxThrottle ELSE duty
    IN setRampThrottle(e, rampStepsFor(e, (d - minThrottle) * 100), d)

-----------------------------------------------------------------------------
(* MoaTimer and MoaDevicesManager.  W is the record of everything the       *)
(* control task owns: [state, esc, timers, devQueue].                      *)

\* _timers[id]: instances counts the MoaTimer objects made for the id
NoTimer == [created |-> FALSE, active |-> FALSE, instances |-> 0]

\* stopTimer that leaves the timer as it is
stopTimerNoEffect(W, timerId) == W

stopTimer(W, timerId) ==
    IF timerId >= MOA_TIMER_MAX_INSTANCES THEN W
    ELSE IF ~W.timers[timerId].created THEN W
    ELSE [W EXCEPT !.timers[timerId].active = FALSE]

\* startTimer that makes a new MoaTimer on every call
startTimerAlwaysNew(W, timerId, durationMs) ==
    IF timerId >= MOA_TIMER_MAX_INSTANCES THEN W
    ELSE IF ~W.devQueue THEN W
    ELSE [W EXCEPT !.timers[timerId] =
              [created |-> TRUE, active |-> TRUE, instances |-> @.instances + 1]]

startTimer(W, timerId, durationMs) ==
    IF timerId >= MOA_TIMER_MAX_INSTANCES THEN W
    ELSE IF ~W.devQueue THEN W
    ELSE LET T == W.timers[timerId]
             T1 == IF ~T.created
                   THEN [T EXCEPT !.created = TRUE, !.instances = @ + 1]
                   ELSE T
         IN [W EXCEPT !.timers[timerId] = [T1 EXCEPT !.active = TRUE]]

setThrottleLevel(W, percent) ==
    [W EXCEPT !.esc = setThrottlePercent(W.esc, U8(percent))]

stopMotor(W) == [W EXCEPT !.esc = stop(W.esc)]

escThrottleLevel(commandType) ==
    CASE commandType = COMMAND_BUTTON_25 -> ESC_ECO_MODE
      [] commandType = COMMAND_BUTTON_50 -> ESC_PADDLE_MODE
      [] commandType = COMMAND_BUTTON_75 -> ESC_BREAKING_MODE
      [] commandType = COMMAND_BUTTON_100 -> ESC_FULL_THROTTLE_MODE
      [] OTHER -> 0

escThrottleTimeout(commandType) ==
    CASE commandType = COMMAND_BUTTON_25 -> ESC_25_TIME
      [] commandType = COMMAND_BUTTON_50 -> ESC_50_TIME
      [] commandType = COMMAND_BUTTON_75 -> ESC_75_TIME
      [] commandType = COMMAND_BUTTON_100 -> ESC_100_TIME
      [] OTHER -> 0

engageThrottle(W, commandType) ==
    LET W1 == stopTimer(W, TIMER_ID_THROTTLE)
        W2 == stopTimer(W1, TIMER_ID_FULL_THROTTLE)
        W3 == setThrottleLevel(W2, escThrottleLevel(U8(commandType)))
    IN IF U8(commandType) = COMMAND_BUTTON_100
       THEN startTimer(W3, TIMER_ID_FULL_THROTTLE, ESC_100_TIME)
       ELSE IF escThrottleTimeout(U8(commandType)) > 0
            THEN startTimer(W3, TIMER_ID_THROTTLE, escThrottleTimeout(U8(commandType)))
            ELSE W3

\* disengageThrottle that stops the timers and forgets the motor
disengageThrottleNoStop(W) ==
    stopTimer(stopTimer(W, TIMER_ID_THROTTLE), TIMER_ID_FULL_THROTTLE)

disengageThrottle(W) ==
    stopMotor(stopTimer(stopTimer(W, TIMER_ID_THROTTLE), TIMER_ID_FULL_THROTTLE))

\* handleThrottleStepDown that sets the level and arms no timer
handleThrottleStepDownNoTimer(W) == setThrottleLevel(W, ESC_BREAKING_MODE)

handleThrottleStepDown(W) ==
    startTimer(setThrottleLevel(W, ESC_BREAKING_MODE), TIMER_ID_THROTTLE, ESC_75_TIME_100)

\* The FreeRTOS timer service as MoaTimer uses it.  S is the record [now,
\* deadline, ...]; the commands of one MoaTimer::start() take effect together.
NoCall == [name |-> "none", id |-> 0, ret |-> FALSE, wasActive |-> FALSE]
NoTimes == [i \in 0..(MOA_TIMER_MAX_INSTANCES - 1) |-> 0]
TimerService ==
    [now |-> 0, deadline |-> NoTimes, due |-> NoTimes, fired |-> NoTimes,
     earlier |-> NoTimes, call |-> NoCall]

\* MoaTimer::start that leaves a running timer's expiry where it was
MoaTimer_startNoRearm(S, wasActive, timerId, durationMs) ==
    IF wasActive THEN S
    ELSE [S EXCEPT !.deadline[timerId] = S.now + durationMs]

\* MoaTimer::start: xTimerStop if active, xTimerChangePeriod, xTimerStart
MoaTimer_start(S, wasActive, timerId, durationMs) ==
    [S EXCEPT !.deadline[timerId] = S.now + durationMs]

-----------------------------------------------------------------------------
(* MoaMcpDevice: the port expander behind its mutex.  Every public bus      *)
(* operation is acquireMutex(), the bus transaction, releaseMutex().        *)

McpTasks == {"IOTask", "ControlTask"}
McpOps == {"readPortA", "readInterruptCapturePortA", "writePortB"}

\* MoaMcpDevice constructor: the mutex is created and free
MoaMcpDevice ==
    [owner |-> "none",
     pc |-> [t \in McpTasks |-> "idle"],
     op |-> [t \in McpTasks |-> "none"],
     ret |-> [t \in McpTasks |-> "none"],
     usedBus |-> [t \in McpTasks |-> FALSE]]

\* a take that succeeds whoever holds the mutex
xSemaphoreTakeAlways(owner) == TRUE

\* xSemaphoreTake(_mutex, ticks) == pdTRUE: the mutex is free within the timeout
xSemaphoreTake(owner) == owner = "none"

-----------------------------------------------------------------------------
(* Indicators of MoaDevicesManager.  W.port is the outcome of the LED port  *)
(* writes made while one event is handled: MoaMcpDevice::writePortB returns *)
(* without touching the bus when acquireMutex() fails.                      *)

\* MoaDevicesManager constructor
Indicators ==
    [lastBattLevel |-> "BATT_HIGH", lastOverheat |-> FALSE, lastOvercurrent |-> FALSE,
     boardLocked |-> TRUE, configModeActive |-> FALSE, fault |-> FALSE]

\* MoaLedControl::writeLedState -> MoaMcpDevice::writePortB
writeLedState(W) ==
    [W EXCEPT !.port = IF W.ind.fault THEN "failed" ELSE "ok"]

showBatteryLevel(W, level) ==
    writeLedState([W EXCEPT !.ind.lastBattLevel = level])

indicateOverheat(W, active) ==
    writeLedState([W EXCEPT !.ind.lastOverheat = active])

indicateOvercurrent(W, active) ==
    writeLedState([W EXCEPT !.ind.lastOvercurrent = active])

showBoardUnlocked(W) ==
    LET W1 == [W EXCEPT !.ind.boardLocked = FALSE]
    IN IF ~W.ind.lastOvercurrent THEN writeLedState(W1) ELSE W1

refreshLedIndicators(W) == writeLedState(W)

enterConfigMode(W) ==
    writeLedState([W EXCEPT !.ind.configModeActive = TRUE])

-----------------------------------------------------------------------------
(* State classes.  h names the virtual handler MoaStateMachine forwards to; *)
(* cmd is the ControlCommand.  W.entered lists the states whose onEnter has *)
(* run while the event is handled.                                          *)

\* MoaStateMachine::setState assigns _state and nothing else: no onEnter call.
setState(W, s) == [W EXCEPT !.state = s]

\* InitState::buttonClick that unlocks on every sub-event of the stop button
InitStateAnyStop(W, h, cmd) ==
    IF h = "buttonClick" /\ cmd.commandType = COMMAND_BUTTON_STOP
    THEN setState(refreshLedIndicators(showBoardUnlocked(W)), "Idle")
    ELSE W

InitState(W, h, cmd) ==
    IF h # "buttonClick" THEN W
    ELSE IF cmd.commandType = COMMAND_BUTTON_STOP /\ cmd.value = BUTTON_EVENT_LONG_PRESS
    THEN setState(refreshLedIndicators(showBoardUnlocked(W)), "Idle")
    ELSE IF cmd.commandType = COMMAND_BUTTON_STOP
            /\ cmd.value = BUTTON_EVENT_VERY_LONG_PRESS
    THEN enterConfigMode(W)
    ELSE W

IdleState(W, h, cmd) ==
    IF h # "buttonClick" THEN W
    ELSE IF cmd.commandType # COMMAND_BUTTON_STOP
    THEN LET W1 == setThrottleLevel(W, (cmd.commandType - 1) * 25)
             timeout == CASE cmd.commandType = COMMAND_BUTTON_25 -> ESC_25_TIME
                          [] cmd.commandType = COMMAND_BUTTON_50 -> ESC_50_TIME
                          [] cmd.commandType = COMMAND_BUTTON_75 -> ESC_75_TIME
                          [] cmd.commandType = COMMAND_BUTTON_100 -> ESC_100_TIME
                          [] OTHER -> 0
             W2 == IF timeout > 0 THEN startTimer(W1, TIMER_ID_THROTTLE, timeout) ELSE W1
         IN setState(W2, "Surfing")
    ELSE setState(stopMotor(W), "Idle")

SurfingState(W, h, cmd) ==
    CASE h = "buttonClick" ->
           IF cmd.value # BUTTON_EVENT_PRESS THEN W
           ELSE IF cmd.commandType # COMMAND_BUTTON_STOP
                THEN engageThrottle(W, cmd.commandType)
                ELSE setState(disengageThrottle(W), "Idle")
      [] h = "overcurrentDetected" ->
           IF cmd.commandType = COMMAND_CURRENT_OVERCURRENT
           THEN setState(disengageThrottle(W), "OverCurrent") ELSE W
      [] h = "temperatureCrossedLimit" ->
           IF cmd.commandType = COMMAND_TEMP_CROSSED_ABOVE
           THEN setState(disengageThrottle(W), "OverHeating") ELSE W
      [] h = "batteryLevelCrossedLimit" ->
           IF cmd.commandType = COMMAND_BATT_LEVEL_LOW
           THEN setState(W, "BatteryLow") ELSE W
      [] h = "timerExpired" ->
           IF cmd.commandType = TIMER_ID_THROTTLE
           THEN setState(disengageThrottle(W), "Idle")
           ELSE IF cmd.commandType = TIMER_ID_FULL_THROTTLE
                THEN handleThrottleStepDown(W) ELSE W

OverHeatingState(W, h, cmd) ==
    CASE h = "buttonClick" ->
           IF cmd.commandType = COMMAND_BUTTON_STOP /\ cmd.value = BUTTON_EVENT_LONG_PRESS
           THEN setState(stopMotor(W), "Init") ELSE W
      [] h = "overcurrentDetected" ->
           IF cmd.commandType = COMMAND_CURRENT_OVERCURRENT
           THEN setState(stopMotor(W), "OverCurrent") ELSE W
      [] h = "temperatureCrossedLimit" ->
           IF cmd.commandType = COMMAND_TEMP_CROSSED_BELOW
           THEN setState(stopMotor(W), "Idle") ELSE W
      [] h = "batteryLevelCrossedLimit" ->
           IF cmd.commandType = COMMAND_BATT_LEVEL_LOW
           THEN setState(stopMotor(W), "BatteryLow") ELSE W
      [] h = "timerExpired" -> W

OverCurrentState(W, h, cmd) ==
    CASE h = "buttonClick" ->
           IF cmd.commandType = COMMAND_BUTTON_STOP /\ cmd.value = BUTTON_EVENT_LONG_PRESS
           THEN setState(stopMotor(W), "Init") ELSE W
      [] h = "overcurrentDetected" ->
           IF cmd.commandType = COMMAND_CURRENT_NORMAL
           THEN setState(disengageThrottle(W), "Idle") ELSE W
      [] h = "temperatureCrossedLimit" ->
           IF cmd.commandType = COMMAND_TEMP_CROSSED_ABOVE
           THEN setState(stopMotor(W), "OverHeating") ELSE W
      [] h = "batteryLevelCrossedLimit" ->
           IF cmd.commandType = COMMAND_BATT_LEVEL_LOW
           THEN setState(stopMotor(W), "BatteryLow") ELSE W
      [] h = "timerExpired" -> W

BatteryLowState(W, h, cmd) ==
    CASE h = "buttonClick" ->
           IF cmd.commandType = COMMAND_BUTTON_STOP /\ cmd.value = BUTTON_EVENT_LONG_PRESS
           THEN setState(stopMotor(W), "Init") ELSE W
      [] h = "overcurrentDetected" ->
           IF cmd.commandType = COMMAND_CURRENT_OVERCURRENT
           THEN setState(stopMotor(W), "OverCurrent") ELSE W
      [] h = "temperatureCrossedLimit" ->
           IF cmd.commandType = COMMAND_TEMP_CROSSED_ABOVE
           THEN setState(stopMotor(W), "OverHeating") ELSE W
      [] h = "batteryLevelCrossedLimit" ->
           IF cmd.commandType \in {COMMAND_BATT_LEVEL_MEDIUM, COMMAND_BATT_LEVEL_HIGH}
           THEN setState(stopMotor(W), "Idle") ELSE W
      [] h = "timerExpired" -> W

\* MoaStateMachine::buttonClick etc.: _state->handler(command)
MoaStateMachine(W, h, cmd) ==
    CASE W.state = "Init" -> InitState(W, h, cmd)
      [] W.state = "Idle" -> IdleState(W, h, cmd)
      [] W.state = "Surfing" -> SurfingState(W, h, cmd)
      [] W.state = "OverHeating" -> OverHeatingState(W, h, cmd)
      [] W.state = "OverCurrent" -> OverCurrentState(W, h, cmd)
      [] W.state = "BatteryLow" -> BatteryLowState(W, h, cmd)

\* MoaStateMachineManager::handleTemperatureEvent
handleTemperatureEvent(W, cmd) ==
    MoaStateMachine(indicateOverheat(W, cmd.commandType = 1),
                    "temperatureCrossedLimit", cmd)

\* MoaStateMachineManager::handleBatteryEvent
handleBatteryEvent(W, cmd) ==
    LET level == CASE cmd.commandType = 1 -> "BATT_HIGH"
                   [] cmd.commandType = 2 -> "BATT_MEDIUM"
                   [] OTHER -> "BATT_LOW"
    IN MoaStateMachine(showBatteryLevel(W, level), "batteryLevelCrossedLimit", cmd)

\* handleCurrentEvent with the indicator following the command codes by name
handleCurrentEventByName(W, cmd) ==
    MoaStateMachine(
        indicateOvercurrent(W, cmd.commandType \in {COMMAND_CURRENT_OVERCURRENT,
                                                    COMMAND_CURRENT_REVERSE_OVERCURRENT}),
        "overcurrentDetected", cmd)

\* MoaStateMachineManager::handleCurrentEvent
handleCurrentEvent(W, cmd) ==
    MoaStateMachine(indicateOvercurrent(W, cmd.commandType = 2 \/ cmd.commandType = 3),
                    "overcurrentDetected", cmd)

\* MoaStateMachineManager::handleEvent (log calls do not touch W)
handleEvent(W, cmd) ==
    CASE cmd.controlType = CONTROL_TYPE_TIMER -> MoaStateMachine(W, "timerExpired", cmd)
      [] cmd.controlType = CONTROL_TYPE_TEMPERATURE -> handleTemperatureEvent(W, cmd)
      [] cmd.controlType = CONTROL_TYPE_BATTERY -> handleBatteryEvent(W, cmd)
      [] cmd.controlType = CONTROL_TYPE_CURRENT -> handleCurrentEvent(W, cmd)
      [] cmd.controlType = CONTROL_TYPE_BUTTON -> MoaStateMachine(W, "buttonClick", cmd)
      [] OTHER -> W

-----------------------------------------------------------------------------
(* Event queue and the tasks of the control core *)

Cmd(ct, c, v) == [commandType |-> c, value |-> v, controlType |-> ct, seq |-> 0]
NoEvent == Cmd(0, 0, 0)

\* a send that puts cmd in front of the waiting events
xQueueSendToFront(q, cmd) == IF Len(q) < EVENT_QUEUE_SIZE THEN <<cmd>> \o q ELSE q

\* a send that makes room in a full queue by discarding the oldest event
xQueueSendOverwrite(q, cmd) ==
    IF Len(q) < EVENT_QUEUE_SIZE THEN Append(q, cmd) ELSE Append(Tail(q), cmd)

\* xQueueSend(_eventQueue, &cmd, 0): zero ticks to wait, so a full queue drops cmd
xQueueSend(q, cmd) == IF Len(q) < EVENT_QUEUE_SIZE THEN Append(q, cmd) ELSE q

World ==
    [state |-> state, esc |-> esc, timers |-> timers, devQueue |-> devQueue,
     ind |-> ind, entered |-> <<>>, port |-> "none"]

-----------------------------------------------------------------------------
(* MoaButtonControl over the MCP23018 port.  B is the record of what one    *)
(* call works on: [btn, queue, cnt], cnt being the count of events sent per *)
(* button since its last accepted press edge.                               *)

BUTTON_PIN_STOP == 1
MOA_BUTTON_COUNT == 5
BUTTON_DEBOUNCE_MS == 50
BUTTON_LONG_PRESS_MS == 5000
MOA_BUTTON_DEFAULT_VERY_LONG_PRESS_MS == 10000

Buttons == 0..(MOA_BUTTON_COUNT - 1)

\* the constructor's ButtonState; veryLongPressFired is never read or written
ButtonState == [lastChangeTime |-> 0, pressStartTime |-> 0,
                isPressed |-> FALSE, longPressFired |-> FALSE]

NoCount == [press |-> 0, long |-> 0]

\* history of the physical press edges of the stop button: the time of the
\* first edge of the latest burst (edges less than the debounce time after
\* it), how many edges the burst has (counted to 2), the length of the queue
\* when the burst began, and whether the component then held the button
\* released with no interrupt left to process
NoEdge == [first |-> 0, burst |-> 0, qlen |-> 0, rest |-> FALSE]

\* the recording ends for good at the first port read that times out
EndedEdge == [first |-> 0, burst |-> 0 - 1, qlen |-> 0, rest |-> FALSE]

RECURSIVE Pow2(_)
Pow2(n) == IF n = 0 THEN 1 ELSE 2 * Pow2(n - 1)

RECURSIVE PortBits(_)
PortBits(S) == IF S = {} THEN 0
               ELSE LET i == CHOOSE x \in S : TRUE
                    IN Pow2(BUTTON_PIN_STOP + i) + PortBits(S \ {i})

\* MoaMcpDevice::readPortA: the GPIOA byte (a pressed button pulls its bit
\* low), or 0 when the mutex was not acquired within its timeout
readPortA(pressed, mutexAcquired) ==
    IF ~mutexAcquired THEN 0 ELSE 255 - PortBits(pressed)

\* the IO task outside processInterrupt, INTA released, nothing unread;
\* since[i] is the time of the last change of the contact of button i
IoTaskStart == [pc |-> "idle", t |-> 0, cur |-> readPortA({}, TRUE), intA |-> FALSE,
                unread |-> FALSE, setDuring |-> FALSE, timedOut |-> FALSE,
                since |-> [i \in Buttons |-> 0]]

\* !(state & (1 << pin))
PinLow(portState, i) == (portState \div Pow2(BUTTON_PIN_STOP + i)) % 2 = 0

pinToCommandId(pinIndex) == COMMAND_BUTTON_STOP + pinIndex

MoaButtonControl_pushButtonEvent(B, i, eventType) ==
    [B EXCEPT !.queue = xQueueSend(@, Cmd(CONTROL_TYPE_BUTTON, pinToCommandId(i), eventType)),
              !.cnt[i] = IF eventType = BUTTON_EVENT_PRESS
                         THEN [@ EXCEPT !.press = @ + 1]
                         ELSE [@ EXCEPT !.long = @ + 1]]

\* the press edge: timestamps, flag reset, Press event
pressEdge(B, i, t) ==
    MoaButtonControl_pushButtonEvent(
        [B EXCEPT !.btn[i] = [lastChangeTime |-> t, pressStartTime |-> t,
                              isPressed |-> TRUE, longPressFired |-> FALSE],
                  !.cnt[i] = NoCount],
        i, BUTTON_EVENT_PRESS)

releaseEdge(B, i, t) ==
    [B EXCEPT !.btn[i].lastChangeTime = t, !.btn[i].isPressed = FALSE]

processButtonFromInterrupt(B, i, isPressed, t) ==
    IF isPressed THEN pressEdge(B, i, t) ELSE releaseEdge(B, i, t)

\* processInterrupt with the debounce test left out
RECURSIVE processInterruptFromNoDebounce(_, _, _, _)
processInterruptFromNoDebounce(B, i, currentState, t) ==
    IF i >= MOA_BUTTON_COUNT THEN B
    ELSE LET currentPressed == PinLow(currentState, i)
             B1 == IF currentPressed # B.btn[i].isPressed
                   THEN processButtonFromInterrupt(B, i, currentPressed, t)
                   ELSE B
         IN processInterruptFromNoDebounce(B1, i + 1, currentState, t)

RECURSIVE processInterruptFrom(_, _, _, _)
processInterruptFrom(B, i, currentState, t) ==
    IF i >= MOA_BUTTON_COUNT THEN B
    ELSE LET currentPressed == PinLow(currentState, i)
             B1 == IF currentPressed # B.btn[i].isPressed
                      /\ (t - B.btn[i].lastChangeTime) >= BUTTON_DEBOUNCE_MS
                   THEN processButtonFromInterrupt(B, i, currentPressed, t)
                   ELSE B
         IN processInterruptFrom(B1, i + 1, currentState, t)

processInterrupt(B, currentState, t) == processInterruptFrom(B, 0, currentState, t)

\* a long-press test that does not record that it has fired
longPressOfNoFlag(B, i, t) ==
    IF B.btn[i].isPressed /\ ~B.btn[i].longPressFired
       /\ (t - B.btn[i].pressStartTime) >= BUTTON_LONG_PRESS_MS
    THEN MoaButtonControl_pushButtonEvent(B, i, BUTTON_EVENT_LONG_PRESS)
    ELSE B

\* the long-press test shared by checkLongPress and processButton
longPressOf(B, i, t) ==
    IF B.btn[i].isPressed /\ ~B.btn[i].longPressFired
       /\ (t - B.btn[i].pressStartTime) >= BUTTON_LONG_PRESS_MS
    THEN MoaButtonControl_pushButtonEvent([B EXCEPT !.btn[i].longPressFired = TRUE],
                                          i, BUTTON_EVENT_LONG_PRESS)
    ELSE B

RECURSIVE checkLongPressFrom(_, _, _)
checkLongPressFrom(B, i, t) ==
    IF i >= MOA_BUTTON_COUNT THEN B
    ELSE checkLongPressFrom(longPressOf(B, i, t), i + 1, t)

\* long press is enabled by MoaMainUnit before the tasks start
checkLongPress(B, t) == checkLongPressFrom(B, 0, t)

processButton(B, i, isPressed, t) ==
    IF isPressed # B.btn[i].isPressed
    THEN IF (t - B.btn[i].lastChangeTime) >= BUTTON_DEBOUNCE_MS
         THEN (IF isPressed THEN pressEdge(B, i, t) ELSE releaseEdge(B, i, t))
         ELSE B
    ELSE longPressOf(B, i, t)

RECURSIVE updateFrom(_, _, _, _)
updateFrom(B, i, rawState, t) ==
    IF i >= MOA_BUTTON_COUNT THEN B
    ELSE updateFrom(processButton(B, i, PinLow(rawState, i), t), i + 1, rawState, t)

update(B, rawState, t) == updateFrom(B, 0, rawState, t)

-----------------------------------------------------------------------------
(* Threshold detectors: MoaBattControl, MoaCurrentControl, MoaTempControl.
   Voltages are in millivolts, currents in amperes, temperatures in tenths of
   a degree Celsius.  The float average is kept exact, as the pair of the sum
   of the buffered samples and their number; float rounding is not modelled. *)

MOA_BATT_DEFAULT_SAMPLES == 10
MOA_CURRENT_DEFAULT_SAMPLES == 10
MOA_TEMP_DEFAULT_SAMPLES == 10
MOA_BATT_MAX_SAMPLES == 32
BATT_THRESHOLD_HIGH == 25000
BATT_THRESHOLD_LOW == 20000
BATT_HYSTERESIS == 100
TEMP_THRESHOLD_TARGET == 600
TEMP_HYSTERESIS == 20
CURRENT_THRESHOLD_OVERCURRENT == 150
CURRENT_THRESHOLD_REVERSE == 0 - 150
CURRENT_HYSTERESIS == 5
\* DallasTemperature's reading for a sensor that does not answer (-127 C)
DEVICE_DISCONNECTED_C == 0 - 1270

DetectorKinds == {"battery", "current", "temperature"}

\* setNumSamples: clamp, fresh zeroed buffer, counters reset
setNumSamples(d, numSamples) ==
    LET n == IF numSamples < 1 THEN 1
             ELSE IF numSamples > MOA_BATT_MAX_SAMPLES THEN MOA_BATT_MAX_SAMPLES
             ELSE numSamples
    IN [d EXCEPT !.numSamples = n,
                 !.samples = [i \in 1..n |-> 0],
                 !.sampleIndex = 0,
                 !.sampleCount = 0]

\* a detector as its constructor leaves it
Detector(zone, numSamples) ==
    setNumSamples([numSamples |-> 0, samples |-> <<>>, sampleIndex |-> 0,
                   sampleCount |-> 0, zone |-> zone], numSamples)

Detectors ==
    [k \in DetectorKinds |->
        CASE k = "battery" -> Detector("BATT_MEDIUM", MOA_BATT_DEFAULT_SAMPLES)
          [] k = "current" -> Detector("NORMAL", MOA_CURRENT_DEFAULT_SAMPLES)
          [] OTHER -> Detector("BELOW_TARGET", MOA_TEMP_DEFAULT_SAMPLES)]

isAveragingReadyOneShort(d) == d.sampleCount >= d.numSamples - 1

isAveragingReady(d) == d.sampleCount >= d.numSamples

RECURSIVE sumSamples(_, _)
sumSamples(samples, count) ==
    IF count = 0 THEN 0 ELSE samples[count] + sumSamples(samples, count - 1)

\* calculateAverage: the mean of the first _sampleCount slots, here sum / n
calculateAverage(d) == [sum |-> sumSamples(d.samples, d.sampleCount), n |-> d.sampleCount]

\* addSample with the write index left where it is
addSampleStuckIndex(d, value) ==
    [d EXCEPT !.samples[d.sampleIndex + 1] = value,
              !.sampleCount = IF d.sampleCount < d.numSamples THEN @ + 1 ELSE @]

\* addSample: write at _sampleIndex, advance it, count up to _numSamples
addSample(d, value) ==
    [d EXCEPT !.samples[d.sampleIndex + 1] = value,
              !.sampleIndex = (d.sampleIndex + 1) % d.numSamples,
              !.sampleCount = IF d.sampleCount < d.numSamples THEN @ + 1 ELSE @]

\* average >= t and average <= t, for an average sum / n with n > 0
AvgGE(a, t) == a.sum >= t * a.n
AvgLE(a, t) == a.sum <= t * a.n

\* the value an event carries: static_cast<int>(average * scale)
avgValue(a, scale) == CDiv(a.sum * scale, a.n)

battLevelBareHigh(level, a) ==
    CASE level = "BATT_LOW" ->
            IF AvgGE(a, BATT_THRESHOLD_LOW + BATT_HYSTERESIS) THEN "BATT_MEDIUM"
            ELSE "BATT_LOW"
      [] level = "BATT_MEDIUM" ->
            IF AvgLE(a, BATT_THRESHOLD_LOW) THEN "BATT_LOW"
            ELSE IF AvgGE(a, BATT_THRESHOLD_HIGH) THEN "BATT_HIGH"
            ELSE "BATT_MEDIUM"
      [] OTHER ->
            IF AvgLE(a, BATT_THRESHOLD_HIGH) THEN "BATT_MEDIUM" ELSE "BATT_HIGH"

battLevelBareLow(level, a) ==
    CASE level = "BATT_LOW" ->
            IF AvgGE(a, BATT_THRESHOLD_LOW) THEN "BATT_MEDIUM" ELSE "BATT_LOW"
      [] level = "BATT_MEDIUM" ->
            IF AvgLE(a, BATT_THRESHOLD_LOW) THEN "BATT_LOW"
            ELSE IF AvgGE(a, BATT_THRESHOLD_HIGH) THEN "BATT_HIGH"
            ELSE "BATT_MEDIUM"
      [] OTHER ->
            IF AvgLE(a, BATT_THRESHOLD_HIGH - BATT_HYSTERESIS) THEN "BATT_MEDIUM"
            ELSE "BATT_HIGH"

\* the switch over _level in MoaBattControl::update
battLevel(level, a) ==
    CASE level = "BATT_LOW" ->
            IF AvgGE(a, BATT_THRESHOLD_LOW + BATT_HYSTERESIS) THEN "BATT_MEDIUM"
            ELSE "BATT_LOW"
      [] level = "BATT_MEDIUM" ->
            IF AvgLE(a, BATT_THRESHOLD_LOW) THEN "BATT_LOW"
            ELSE IF AvgGE(a, BATT_THRESHOLD_HIGH) THEN "BATT_HIGH"
            ELSE "BATT_MEDIUM"
      [] OTHER ->
            IF AvgLE(a, BATT_THRESHOLD_HIGH - BATT_HYSTERESIS) THEN "BATT_MEDIUM"
            ELSE "BATT_HIGH"

battCommand(level) ==
    CASE level = "BATT_LOW" -> COMMAND_BATT_LEVEL_LOW
      [] level = "BATT_MEDIUM" -> COMMAND_BATT_LEVEL_MEDIUM
      [] OTHER -> COMMAND_BATT_LEVEL_HIGH

\* MoaCurrentControl::update once averaging is ready: zone change with
\* hysteresis, and an event when the zone changed
currentZone(zone, avg) ==
    CASE zone = "NORMAL" ->
            IF avg >= CURRENT_THRESHOLD_OVERCURRENT THEN "OVERCURRENT"
            ELSE IF avg <= CURRENT_THRESHOLD_REVERSE THEN "REVERSE_OVERCURRENT"
            ELSE "NORMAL"
      [] zone = "OVERCURRENT" ->
            IF avg <= CURRENT_THRESHOLD_OVERCURRENT - CURRENT_HYSTERESIS
            THEN "NORMAL" ELSE "OVERCURRENT"
      [] OTHER ->
            IF avg >= CURRENT_THRESHOLD_REVERSE + CURRENT_HYSTERESIS
            THEN "NORMAL" ELSE "REVERSE_OVERCURRENT"

currentCommand(zone) ==
    CASE zone = "NORMAL" -> COMMAND_CURRENT_NORMAL
      [] zone = "OVERCURRENT" -> COMMAND_CURRENT_OVERCURRENT
      [] OTHER -> COMMAND_CURRENT_REVERSE_OVERCURRENT

\* the switch with each alarm zone also tested against the opposite threshold
currentStateAfterDirect(zone, a) ==
    IF AvgGE(a, CURRENT_THRESHOLD_OVERCURRENT) THEN "OVERCURRENT"
    ELSE IF AvgLE(a, CURRENT_THRESHOLD_REVERSE) THEN "REVERSE_OVERCURRENT"
    ELSE IF zone = "OVERCURRENT"
              /\ ~AvgLE(a, CURRENT_THRESHOLD_OVERCURRENT - CURRENT_HYSTERESIS)
         THEN "OVERCURRENT"
    ELSE IF zone = "REVERSE_OVERCURRENT"
              /\ ~AvgGE(a, CURRENT_THRESHOLD_REVERSE + CURRENT_HYSTERESIS)
         THEN "REVERSE_OVERCURRENT"
    ELSE "NORMAL"

\* the switch over _state in MoaCurrentControl::update
currentStateAfter(zone, a) ==
    CASE zone = "NORMAL" ->
            IF AvgGE(a, CURRENT_THRESHOLD_OVERCURRENT) THEN "OVERCURRENT"
            ELSE IF AvgLE(a, CURRENT_THRESHOLD_REVERSE) THEN "REVERSE_OVERCURRENT"
            ELSE "NORMAL"
      [] zone = "OVERCURRENT" ->
            IF AvgLE(a, CURRENT_THRESHOLD_OVERCURRENT - CURRENT_HYSTERESIS)
            THEN "NORMAL" ELSE "OVERCURRENT"
      [] OTHER ->
            IF AvgGE(a, CURRENT_THRESHOLD_REVERSE + CURRENT_HYSTERESIS)
            THEN "NORMAL" ELSE "REVERSE_OVERCURRENT"

tempStateNoHysteresis(zone, a) ==
    IF zone = "BELOW_TARGET" /\ AvgGE(a, TEMP_THRESHOLD_TARGET) THEN "ABOVE_TARGET"
    ELSE IF zone = "ABOVE_TARGET" /\ AvgLE(a, TEMP_THRESHOLD_TARGET) THEN "BELOW_TARGET"
    ELSE zone

\* the two-way test over _state in MoaTempControl::update
tempState(zone, a) ==
    IF zone = "BELOW_TARGET" /\ AvgGE(a, TEMP_THRESHOLD_TARGET) THEN "ABOVE_TARGET"
    ELSE IF zone = "ABOVE_TARGET" /\ AvgLE(a, TEMP_THRESHOLD_TARGET - TEMP_HYSTERESIS)
    THEN "BELOW_TARGET"
    ELSE zone

tempCommand(zone) ==
    IF zone = "ABOVE_TARGET" THEN COMMAND_TEMP_CROSSED_ABOVE ELSE COMMAND_TEMP_CROSSED_BELOW

\* the zone a ready detector of kind k moves to, and the event that names it
zoneAfter(k, zone, a) ==
    CASE k = "battery" -> battLevel(zone, a)
      [] k = "current" -> currentStateAfter(zone, a)
      [] OTHER -> tempState(zone, a)

zoneEventSilent(k, zone, a) == Cmd(0, 0, 0)

zoneEvent(k, zone, a) ==
    CASE k = "battery" -> Cmd(CONTROL_TYPE_BATTERY, battCommand(zone), avgValue(a, 1))
      [] k = "current" -> Cmd(CONTROL_TYPE_CURRENT, currentCommand(zone), avgValue(a, 10))
      [] OTHER -> Cmd(CONTROL_TYPE_TEMPERATURE, tempCommand(zone), avgValue(a, 1))

\* update() taking every reading into the buffer
detectorUpdateNoSkip(k, d, reading) ==
    LET s == addSample(d, reading)
        a == calculateAverage(s)
    IN IF ~isAveragingReady(s)
       THEN [d |-> s, sent |-> <<>>]
       ELSE LET z == zoneAfter(k, s.zone, a)
            IN [d |-> [s EXCEPT !.zone = z],
                sent |-> IF z # s.zone THEN <<zoneEvent(k, z, a)>> ELSE <<>>]

\* update() of a detector of kind k on one reading: the detector afterwards
\* and the events it sends (none or one)
detectorUpdate(k, d, reading) ==
    IF k = "temperature" /\ reading = DEVICE_DISCONNECTED_C
    THEN [d |-> d, sent |-> <<>>]
    ELSE LET s == addSample(d, reading)
             a == calculateAverage(s)
         IN IF ~isAveragingReady(s)
            THEN [d |-> s, sent |-> <<>>]
            ELSE LET z == zoneAfter(k, s.zone, a)
                 IN [d |-> [s EXCEPT !.zone = z],
                     sent |-> IF z # s.zone THEN <<zoneEvent(k, z, a)>> ELSE <<>>]

\* nothing recorded yet about any detector
NoBand == [t |-> 0, len |-> 0, events |-> 0, left |-> {}]
NoRise == [on |-> FALSE, start |-> "none", prev |-> 0, steps |-> 0, events |-> 0,
           good |-> TRUE, crossed |-> FALSE, done |-> FALSE]
NoDetHistory ==
    [kind |-> "none", calls |-> 0, valid |-> 0, total |-> 0, prev |-> "none", sent |-> 0,
     band |-> NoBand, rise |-> NoRise, recent |-> <<>>, disconnected |-> FALSE]

\* History of consumed alarm / clearing events, per detector
AlarmAfter(a, cmd) ==
    CASE cmd.controlType = CONTROL_TYPE_CURRENT /\ cmd.commandType = COMMAND_CURRENT_OVERCURRENT
           -> a \cup {"current"}
      [] cmd.controlType = CONTROL_TYPE_CURRENT /\ cmd.commandType = COMMAND_CURRENT_NORMAL
           -> a \ {"current"}
      [] cmd.controlType = CONTROL_TYPE_TEMPERATURE /\ cmd.commandType = COMMAND_TEMP_CROSSED_ABOVE
           -> a \cup {"temperature"}
      [] cmd.controlType = CONTROL_TYPE_TEMPERATURE /\ cmd.commandType = COMMAND_TEMP_CROSSED_BELOW
           -> a \ {"temperature"}
      [] cmd.controlType = CONTROL_TYPE_BATTERY /\ cmd.commandType = COMMAND_BATT_LEVEL_LOW
           -> a \cup {"battery"}
      [] cmd.controlType = CONTROL_TYPE_BATTERY
           /\ cmd.commandType \in {COMMAND_BATT_LEVEL_MEDIUM, COMMAND_BATT_LEVEL_HIGH}
           -> a \ {"battery"}
      [] OTHER -> a

otherVars == <<api, rc, curState, btn, pin, now, bhist, det, dhist, tmr, mcp, io>>

Init ==
    /\ state = "Init"
    /\ esc = ESCController
    /\ timers = [i \in 0..(MOA_TIMER_MAX_INSTANCES - 1) |-> NoTimer]
    /\ devQueue = FALSE
    /\ queue = <<>>
    /\ last = [ev |-> Cmd(0, 0, 0), from |-> "Init", entered |-> <<>>, port |-> "none"]
    /\ alarm = {}
    /\ api = [op |-> "none", ticked |-> FALSE, wasRamping |-> FALSE]
    /\ rc = [sp |-> "ready", tp |-> "idle", r |-> 0, sr |-> 0]
    /\ busg = [created |-> 0, dropped |-> 0, handled |-> 0, lastSeq |-> 0, buttons |-> 0]
    /\ curState = "NORMAL"
    /\ btn = [i \in Buttons |-> ButtonState]
    /\ pin = [pressed |-> {}, pending |-> FALSE]
    /\ now = 0
    /\ bhist = [cnt |-> [i \in Buttons |-> NoCount], failed |-> FALSE, edge |-> NoEdge]
    /\ det = Detectors
    /\ dhist = NoDetHistory
    /\ tmr = TimerService
    /\ mcp = MoaMcpDevice
    /\ ind = Indicators
    /\ io = IoTaskStart

\* MoaDevicesManager::setEventQueue.  MoaMainUnit::begin() sets the queue on the
\* four producers only; behaviours in which this step never happens are the
\* firmware as wired, the others the facade with its queue set.
setEventQueue ==
    /\ ~devQueue /\ state = "Init" /\ queue = <<>> /\ alarm = {}
    /\ devQueue' = TRUE
    /\ UNCHANGED <<state, esc, timers, queue, last, alarm, busg, ind, otherVars>>

\* Input alphabets of the control core: the buttons STOP, 25 % and 100 % with
\* the two sub-events MoaButtonControl sends, and per detector one alarm code
\* and one clearing code.
ButtonIds == {COMMAND_BUTTON_STOP, COMMAND_BUTTON_25, COMMAND_BUTTON_100}
ButtonSubEvents == {BUTTON_EVENT_PRESS, BUTTON_EVENT_LONG_PRESS}
CurrentCodes == {COMMAND_CURRENT_OVERCURRENT, COMMAND_CURRENT_NORMAL}
TempCodes == {COMMAND_TEMP_CROSSED_ABOVE, COMMAND_TEMP_CROSSED_BELOW}
BattCodes == {COMMAND_BATT_LEVEL_MEDIUM, COMMAND_BATT_LEVEL_LOW}

NoLast == [ev |-> NoEvent, from |-> "Init", entered |-> <<>>, port |-> "none"]

\* A detector or the button component sends one event.  In this specification
\* it does so only when the control task has emptied the queue (timer expiries
\* are not so restricted); the queue at capacity is the subject of SpecBus.
Produce(cmd) ==
    /\ queue = <<>>
    /\ queue' = xQueueSend(queue, cmd)
    /\ last' = NoLast
    /\ UNCHANGED <<state, esc, timers, devQueue, alarm, busg, ind, otherVars>>

pushButtonEvent ==
    \E commandId \in ButtonIds :
      \E eventType \in ButtonSubEvents :
        Produce(Cmd(CONTROL_TYPE_BUTTON, commandId, eventType))

pushCurrentEvent ==
    \E c \in CurrentCodes :
        Produce(Cmd(CONTROL_TYPE_CURRENT, c, 0))

pushTempEvent ==
    \E c \in TempCodes :
        Produce(Cmd(CONTROL_TYPE_TEMPERATURE, c, 0))

pushBattEvent ==
    \E c \in BattCodes :
        Produce(Cmd(CONTROL_TYPE_BATTERY, c, 0))

\* MoaTimer::timerCallback of a one-shot timer: the timer stops and its event is sent
timerCallback ==
    \E id \in 0..(MOA_TIMER_MAX_INSTANCES - 1) :
        /\ timers[id].active
        /\ timers' = [timers EXCEPT ![id].active = FALSE]
        /\ queue' = xQueueSend(queue, Cmd(CONTROL_TYPE_TIMER, id, 0))
        /\ last' = NoLast
        /\ UNCHANGED <<state, esc, devQueue, alarm, busg, ind, otherVars>>

\* ControlTask: xQueueReceive, then MoaStateMachineManager::handleEvent
ControlTask ==
    /\ queue # <<>>
    /\ LET cmd == Head(queue)
           W == handleEvent(World, cmd)
       IN /\ state' = W.state
          /\ esc' = W.esc
          /\ timers' = W.timers
          /\ devQueue' = W.devQueue
          /\ ind' = W.ind
          /\ last' = [ev |-> cmd, from |-> state, entered |-> W.entered, port |-> W.port]
          /\ alarm' = AlarmAfter(alarm, cmd)
          /\ busg' = IF cmd.seq > 0
                     THEN [busg EXCEPT !.handled = @ + 1, !.lastSeq = cmd.seq]
                     ELSE busg
    /\ queue' = Tail(queue)
    /\ UNCHANGED otherVars

\* MoaDevicesManager::updateESC, the periodic ramp tick
updateESC ==
    /\ esc' = updateThrottle(esc)
    /\ UNCHANGED <<state, timers, devQueue, queue, last, alarm, busg, ind, otherVars>>

Next ==
    \/ setEventQueue
    \/ pushButtonEvent
    \/ pushCurrentEvent
    \/ pushTempEvent
    \/ pushBattEvent
    \/ timerCallback
    \/ ControlTask
    \/ updateESC

Spec == Init /\ [][Next]_vars

-----------------------------------------------------------------------------
(* Claims about the dispatcher and the state machine, checked under Spec *)

SafetyStates == {"OverHeating", "OverCurrent", "BatteryLow"}
MotorStopped(e) == ~e.ramping /\ e.duty = minThrottle

\* C1: whenever the handling of an event moves the state machine into
\* OverHeating, OverCurrent or BatteryLow, the motor is stopped when the
\* handling ends: the ramp is cancelled and the output duty is min_duty.
C1_SafetyEntryStopsMotor ==
    [][(state' \in SafetyStates /\ state' # state) => MotorStopped(esc')]_vars

\* C2: while some detector's alarm event has been consumed and its clearing
\* event has not, the output duty is min_duty and no ramp toward a duty above
\* min_duty is in progress, whatever button and timer events are handled.
C2_InterlockOverridesUser ==
    alarm # {} => /\ esc.duty = minThrottle
                  /\ ~(esc.ramping /\ esc.targetThrottle > minThrottle)

IsOvercurrent(cmd) ==
    cmd.controlType = CONTROL_TYPE_CURRENT /\ cmd.commandType = COMMAND_CURRENT_OVERCURRENT

\* C3: in Surfing, the handling of a Current event with code OVERCURRENT ends
\* in OverCurrent, with the duty at min_duty, no ramp in progress and both
\* throttle timers stopped.
C3_SurfingOvercurrent ==
    [][(/\ state = "Surfing"
        /\ queue # <<>>
        /\ IsOvercurrent(Head(queue))
        /\ queue' = Tail(queue))
       => (/\ state' = "OverCurrent"
           /\ esc'.duty = minThrottle
           /\ esc'.currentThrottle = minThrottle
           /\ ~esc'.ramping
           /\ ~timers'[TIMER_ID_THROTTLE].active
           /\ ~timers'[TIMER_ID_FULL_THROTTLE].active)]_vars

\* an OVERCURRENT event has just been handled in Surfing, where a throttle
\* level above min_duty had been engaged with its timer created
C3_Witness ==
    /\ last.from = "Surfing"
    /\ IsOvercurrent(last.ev)
    /\ state = "OverCurrent"
    /\ esc.targetThrottle > minThrottle
    /\ timers[TIMER_ID_THROTTLE].created

-----------------------------------------------------------------------------
(* SpecESC: the public operations of ESCController called in any order *)

PercentInputs == {0, 25, 50, 100, 200}
DutyInputs == {0, 51, 60, 102, 1023}
ThrottleInputs == {0, 51, 80, 102, 1023}
RampTimeInputs == {0, 1, 3}
TargetInputs == {40, 76, 102, 2000}

escOther == <<state, timers, devQueue, queue, last, alarm, rc, busg, curState,
              btn, pin, now, bhist,
              det, dhist, ind, tmr, mcp, io>>

\* A throttle command is issued while the current duty is no higher than
\* max_duty (a duty that has wrapped around 2^16 is only ticked or stopped);
\* stop() and the tick are called in every state.
NotWrapped == esc.currentThrottle <= maxThrottle

Called(op) == NotWrapped /\ api' = [op |-> op, ticked |-> FALSE, wasRamping |-> FALSE]

CallStop ==
    /\ esc' = stop(esc)
    /\ api' = [op |-> "stop", ticked |-> FALSE,
               wasRamping |-> esc.ramping /\ esc.duty > minThrottle]
    /\ UNCHANGED escOther

CallUpdateThrottle ==
    /\ esc' = updateThrottle(esc)
    /\ api' = [api EXCEPT !.ticked = TRUE]
    /\ UNCHANGED escOther

CallSetThrottle ==
    \E t \in ThrottleInputs :
        esc' = setThrottle(esc, t) /\ Called("setThrottle") /\ UNCHANGED escOther

CallSetThrottlePercent ==
    \E p \in PercentInputs :
        esc' = setThrottlePercent(esc, p) /\ Called("setThrottlePercent")
        /\ UNCHANGED escOther

CallSetThrottleDuty ==
    \E d \in DutyInputs :
        esc' = setThrottleDuty(esc, d) /\ Called("setThrottleDuty") /\ UNCHANGED escOther

CallSetRampThrottle ==
    \E rt \in RampTimeInputs : \E t \in TargetInputs :
        esc' = setRampThrottle(esc, rt, t) /\ Called("setRampThrottle")
        /\ UNCHANGED escOther

NextESC ==
    \/ CallStop
    \/ CallUpdateThrottle
    \/ CallSetThrottle
    \/ CallSetThrottlePercent
    \/ CallSetThrottleDuty
    \/ CallSetRampThrottle

SpecESC == Init /\ [][NextESC]_vars

\* C5: when stop() returns, no ramp is in progress and the output duty is
\* min_duty, and ticks after it leave the duty there until the next throttle
\* command.
C5_StopIsImmediate ==
    api.op = "stop" => /\ ~esc.ramping
                       /\ esc.duty = minThrottle
                       /\ esc.currentThrottle = minThrottle

\* stop() was called during a ramp with the duty above min_duty, and a tick followed
C5_Witness == api.op = "stop" /\ api.wasRamping /\ api.ticked

\* C6: every duty value written to the output lies in [min_duty, max_duty].
C6_DutyInRange == minThrottle <= esc.duty /\ esc.duty <= maxThrottle

-----------------------------------------------------------------------------
(* SpecRace: ESCController::stop() on the control task and                  *)
(* ESCController::updateThrottle() on the IO task, both at priority 2 on    *)
(* the same core and with no lock around the controller, interleaved at     *)
(* each load and store of _ramping, _currentThrottle and _throttle.         *)
(* rc.sp and rc.tp are the positions of the two calls, rc.sr and rc.r the   *)
(* value each call holds in a register.                                     *)

RacePercents == {25, 50, 100}

raceOther == <<state, timers, devQueue, queue, last, alarm, api, busg, curState,
               btn, pin, now, bhist,
              det, dhist, ind, tmr, mcp, io>>

\* the control task starts a ramp before it calls stop()
RaceCommand ==
    /\ rc.sp = "ready" /\ rc.tp = "idle" /\ ~esc.ramping
    /\ \E p \in RacePercents : esc' = setThrottlePercent(esc, p)
    /\ UNCHANGED <<rc>> /\ UNCHANGED raceOther

\* stop(): _ramping = false
stop_storeRamping ==
    /\ rc.sp = "ready"
    /\ esc' = [esc EXCEPT !.ramping = FALSE]
    /\ rc' = [rc EXCEPT !.sp = "S2"]
    /\ UNCHANGED raceOther

\* setThrottle(_minThrottle): _throttle = throttle
stop_storeThrottle ==
    /\ rc.sp = "S2"
    /\ esc' = [esc EXCEPT !.throttle = minThrottle]
    /\ rc' = [rc EXCEPT !.sp = "S3"]
    /\ UNCHANGED raceOther

\* _currentThrottle = _throttle: the load
stop_loadThrottle ==
    /\ rc.sp = "S3"
    /\ rc' = [rc EXCEPT !.sp = "S4", !.sr = esc.throttle]
    /\ UNCHANGED <<esc>> /\ UNCHANGED raceOther

\* _currentThrottle = _throttle: the store
stop_storeCurrent ==
    /\ rc.sp = "S4"
    /\ esc' = [esc EXCEPT !.currentThrottle = rc.sr]
    /\ rc' = [rc EXCEPT !.sp = "S5"]
    /\ UNCHANGED raceOther

\* writeThrottle(): ledcWrite(_pin, _throttle)
stop_writeThrottle ==
    /\ rc.sp = "S5"
    /\ esc' = writeThrottle(esc)
    /\ rc' = [rc EXCEPT !.sp = "done"]
    /\ UNCHANGED raceOther

\* updateThrottle(): if(!_ramping) return
tick_loadRamping ==
    /\ rc.tp = "idle"
    /\ rc' = [rc EXCEPT !.tp = IF esc.ramping THEN "T2" ELSE "idle"]
    /\ UNCHANGED <<esc>> /\ UNCHANGED raceOther

\* _currentThrottle += _rampStep: the load
tick_loadCurrent ==
    /\ rc.tp = "T2"
    /\ rc' = [rc EXCEPT !.tp = IF esc.rampStep = 0 THEN "T5" ELSE "T3",
                        !.r = esc.currentThrottle]
    /\ UNCHANGED <<esc>> /\ UNCHANGED raceOther

\* _currentThrottle += _rampStep: the store
tick_storeCurrent ==
    /\ rc.tp = "T3"
    /\ esc' = [esc EXCEPT !.currentThrottle = U16(rc.r + esc.rampStep)]
    /\ rc' = [rc EXCEPT !.tp = "T4"]
    /\ UNCHANGED raceOther

\* if(_currentThrottle >= _targetThrottle), or <= for a negative step
tick_compare ==
    /\ rc.tp = "T4"
    /\ LET arrived == IF esc.rampStep > 0
                      THEN esc.currentThrottle >= esc.targetThrottle
                      ELSE esc.currentThrottle <= esc.targetThrottle
       IN rc' = [rc EXCEPT !.tp = IF arrived THEN "T5" ELSE "T7",
                           !.r = esc.currentThrottle]
    /\ UNCHANGED <<esc>> /\ UNCHANGED raceOther

\* _currentThrottle = _targetThrottle
tick_storeTarget ==
    /\ rc.tp = "T5"
    /\ esc' = [esc EXCEPT !.currentThrottle = esc.targetThrottle]
    /\ rc' = [rc EXCEPT !.tp = "T6"]
    /\ UNCHANGED raceOther

\* _ramping = false
tick_storeRamping ==
    /\ rc.tp = "T6"
    /\ esc' = [esc EXCEPT !.ramping = FALSE]
    /\ rc' = [rc EXCEPT !.tp = "T7"]
    /\ UNCHANGED raceOther

\* _throttle = _currentThrottle: the load
tick_loadForThrottle ==
    /\ rc.tp = "T7"
    /\ rc' = [rc EXCEPT !.tp = "T8", !.r = esc.currentThrottle]
    /\ UNCHANGED <<esc>> /\ UNCHANGED raceOther

\* _throttle = _currentThrottle: the store
tick_storeThrottle ==
    /\ rc.tp = "T8"
    /\ esc' = [esc EXCEPT !.throttle = rc.r]
    /\ rc' = [rc EXCEPT !.tp = "T9"]
    /\ UNCHANGED raceOther

\* writeThrottle(): ledcWrite(_pin, _throttle)
tick_writeThrottle ==
    /\ rc.tp = "T9"
    /\ esc' = writeThrottle(esc)
    /\ rc' = [rc EXCEPT !.tp = "idle"]
    /\ UNCHANGED raceOther

NextRace ==
    \/ RaceCommand
    \/ stop_storeRamping
    \/ stop_storeThrottle
    \/ stop_loadThrottle
    \/ stop_storeCurrent
    \/ stop_writeThrottle
    \/ tick_loadRamping
    \/ tick_loadCurrent
    \/ tick_storeCurrent
    \/ tick_compare
    \/ tick_storeTarget
    \/ tick_storeRamping
    \/ tick_loadForThrottle
    \/ tick_storeThrottle
    \/ tick_writeThrottle

SpecRace == Init /\ [][NextRace]_vars

\* C4: once stop() and every updateThrottle() that overlapped it have returned,
\* the output duty is min_duty, and it is still min_duty after later ticks.
C4_StopWinsRace ==
    (rc.sp = "done" /\ rc.tp = "idle") => esc.duty = minThrottle

-----------------------------------------------------------------------------
(* SpecBus: the event queue at its capacity.  The current detector (sensor  *)
(* task) and the button component (IO task) send, the control task          *)
(* receives.  Every event made is tagged with its creation number in `seq`; *)
(* busg counts events created, dropped by a full queue and handled.         *)

MaxEvents == 19
MaxButtonEvents == 2

\* averaged current, in amperes, that update() computes from its samples
AvgCurrents == {0, 147, 150}

busOther == <<state, esc, timers, devQueue, last, alarm, api, rc, btn, pin, now, bhist,
              det, dhist, ind, tmr, mcp, io>>

\* one producer's xQueueSend of a freshly made event
BusSend(cmd, isButton) ==
    /\ busg.created < MaxEvents
    /\ queue' = xQueueSend(queue, [cmd EXCEPT !.seq = busg.created + 1])
    /\ busg' = [busg EXCEPT !.created = @ + 1,
                            !.dropped = IF Len(queue) < EVENT_QUEUE_SIZE THEN @ ELSE @ + 1,
                            !.buttons = IF isButton THEN @ + 1 ELSE @]

\* MoaCurrentControl::update on an averaged current of whole amperes
MoaCurrentControl_update ==
    \E avg \in AvgCurrents :
        LET z == currentZone(curState, avg)
        IN /\ curState' = z
           /\ IF z # curState
              THEN BusSend(Cmd(CONTROL_TYPE_CURRENT, currentCommand(z), avg * 10), FALSE)
              ELSE UNCHANGED <<queue, busg>>
           /\ UNCHANGED busOther

\* MoaButtonControl::pushButtonEvent for a long press of the stop button
BusButtonEvent ==
    /\ busg.buttons < MaxButtonEvents
    /\ BusSend(Cmd(CONTROL_TYPE_BUTTON, COMMAND_BUTTON_STOP, BUTTON_EVENT_LONG_PRESS), TRUE)
    /\ UNCHANGED <<curState>> /\ UNCHANGED busOther

NextBus ==
    \/ MoaCurrentControl_update
    \/ BusButtonEvent
    \/ ControlTask

SpecBus == Init /\ [][NextBus]_vars

QueueSeqs == [i \in 1..Len(queue) |-> queue[i].seq]

\* The statement as written: no event a producer made is ever lost.
C7_NoEventLost == busg.created = busg.handled + Len(queue)

\* C7: every event whose send found a free slot is handled exactly once and in
\* the order of the sends; an event sent to a full queue is dropped.  The
\* waiting events are in the order of their creation, all newer than the one
\* handled last, and created = handled + waiting + dropped.
C7_AcceptedHandledOnceInOrder ==
    /\ \A i \in 1..Len(queue) : \A j \in 1..Len(queue) :
          i < j => queue[i].seq < queue[j].seq
    /\ queue # <<>> => Head(queue).seq > busg.lastSeq
    /\ busg.created = busg.handled + Len(queue) + busg.dropped
    /\ busg.handled <= busg.lastSeq

\* the queue filled, an event was dropped, and later events were still handled
C7_Witness ==
    /\ busg.dropped > 0
    /\ busg.handled > EVENT_QUEUE_SIZE
    /\ busg.lastSeq > busg.handled

\* C8: a send that finds the queue full returns at once: the event is
\* discarded, the queue is unchanged, and the producer's update call completes
\* (the detector has moved to its new zone).
C8_FullQueueSendDrops ==
    [][(Len(queue) = EVENT_QUEUE_SIZE /\ busg'.created = busg.created + 1)
        => /\ queue' = queue
           /\ busg'.dropped = busg.dropped + 1
           /\ (busg'.buttons = busg.buttons => curState' # curState)]_vars

\* both producers have had an event dropped by the full queue
C8_Witness ==
    /\ Len(queue) = EVENT_QUEUE_SIZE
    /\ busg.dropped >= 2
    /\ busg.buttons > 0
    /\ QueueSeqs[EVENT_QUEUE_SIZE] < busg.created - 1

-----------------------------------------------------------------------------
(* SpecBtn: the button component driven by pin changes, the passing of      *)
(* time and the IO task; update() is the polled mode.  A port read finds    *)
(* the hardware-bus mutex free or times out.                                *)

\* instants (ms since boot) at which millis() is sampled
SampleTimes == {0, 20, 60, 120, 5060, 10130}

\* buttons that are physically operated
PressableButtons == {0, 1}

btnOther == <<state, esc, timers, devQueue, last, alarm, api, rc, busg, curState,
              det, dhist, ind, tmr, mcp, io>>

ButtonWork == [btn |-> btn, queue |-> queue, cnt |-> bhist.cnt]

\* the button whose physical press edges are recorded in bhist.edge
EdgeButton == 0

\* bhist.edge after the pins change from `before` to `after`
EdgeAfter(before, after) ==
    IF bhist.edge.burst >= 0 /\ EdgeButton \in after /\ EdgeButton \notin before
    THEN IF bhist.edge.burst > 0 /\ now - bhist.edge.first < BUTTON_DEBOUNCE_MS
         THEN [bhist.edge EXCEPT !.burst = 2]
         ELSE [first |-> now, burst |-> 1, qlen |-> Len(queue),
               rest |-> ~btn[EdgeButton].isPressed /\ ~pin.pending]
    ELSE bhist.edge

\* events of the given kind sent for EdgeButton since the burst began
EdgeEvents(eventType) ==
    Cardinality({k \in (bhist.edge.qlen + 1)..Len(queue) :
                    queue[k] = Cmd(CONTROL_TYPE_BUTTON, pinToCommandId(EdgeButton), eventType)})

\* time passes
AdvanceTime ==
    /\ \E t \in SampleTimes : t > now /\ now' = t
    /\ bhist' = [bhist EXCEPT !.failed = FALSE]
    /\ UNCHANGED <<btn, pin, queue>> /\ UNCHANGED btnOther

\* a button is pressed or released; the expander raises INTA and
\* handleInterrupt sets the pending flag
handleInterrupt ==
    /\ \E b \in PressableButtons :
          pin' = [pressed |-> IF b \in pin.pressed THEN pin.pressed \ {b}
                              ELSE pin.pressed \cup {b},
                  pending |-> TRUE]
    /\ bhist' = [bhist EXCEPT !.failed = FALSE, !.edge = EdgeAfter(pin.pressed, pin'.pressed)]
    /\ UNCHANGED <<btn, now, queue>> /\ UNCHANGED btnOther

\* one pass of the IO task loop: processInterrupt when an interrupt is
\* pending, then checkLongPress.  A read that timed out on the mutex has not
\* cleared the expander's interrupt, so INTA stays asserted.
IOTask ==
    \E mutexAcquired \in (IF pin.pending THEN BOOLEAN ELSE {TRUE}) :
        LET B1 == IF pin.pending
                  THEN processInterrupt(ButtonWork, readPortA(pin.pressed, mutexAcquired), now)
                  ELSE ButtonWork
            B2 == checkLongPress(B1, now)
        IN /\ btn' = B2.btn
           /\ queue' = B2.queue
           /\ bhist' = [cnt |-> B2.cnt, failed |-> ~mutexAcquired,
                        edge |-> IF mutexAcquired THEN bhist.edge ELSE EndedEdge]
           /\ pin' = [pin EXCEPT !.pending = @ /\ ~mutexAcquired]
           /\ UNCHANGED <<now>> /\ UNCHANGED btnOther

\* polled mode: one call of MoaButtonControl::update
ButtonUpdate ==
    \E mutexAcquired \in BOOLEAN :
        LET B1 == update(ButtonWork, readPortA(pin.pressed, mutexAcquired), now)
        IN /\ btn' = B1.btn
           /\ queue' = B1.queue
           /\ bhist' = [cnt |-> B1.cnt, failed |-> ~mutexAcquired,
                        edge |-> IF mutexAcquired THEN bhist.edge ELSE EndedEdge]
           /\ UNCHANGED <<pin, now>> /\ UNCHANGED btnOther

NextBtn ==
    \/ AdvanceTime
    \/ handleInterrupt
    \/ IOTask
    \/ ButtonUpdate

SpecBtn == Init /\ [][NextBtn]_vars

\* C9: a port read that timed out on the hardware-bus mutex changes no
\* button's pressed state and sends no Press event.
C9_FailedReadChangesNothing ==
    [][bhist'.failed =>
         \A i \in Buttons : /\ btn'[i].isPressed = btn[i].isPressed
                              /\ btn'[i].lastChangeTime = btn[i].lastChangeTime]_vars

\* C10: while a button is held after an accepted press edge, exactly one
\* Press and at most one LongPress have been sent for it since that edge, and
\* no VeryLongPress; the LongPress was sent exactly when longPressFired is
\* set; longPressFired goes back to false only in a step that accepts a press
\* edge.
C10_OnePressOneLongPress ==
    /\ [](\A i \in Buttons :
            btn[i].isPressed => /\ bhist.cnt[i].press = 1
                                /\ bhist.cnt[i].long <= 1
                                /\ (bhist.cnt[i].long = 1) = btn[i].longPressFired)
    /\ [](\A k \in 1..Len(queue) : queue[k].value # BUTTON_EVENT_VERY_LONG_PRESS)
    /\ [][\A i \in Buttons :
            (btn[i].longPressFired /\ ~btn'[i].longPressFired)
               => (btn'[i].isPressed /\ btn'[i].pressStartTime = now
                   /\ bhist'.cnt[i].press = 1
                   /\ (~btn[i].isPressed \/ btn[i].pressStartTime < now))]_vars

\* C11: two physical presses of the stop button whose press edges are less
\* than the debounce time apart, the first made while the component holds the
\* button released, result in exactly one Press event: once the
\* debounce time has passed since the first edge, a pass of the IO task (or a
\* polled update) that finds the button still held and no interrupt pending
\* leaves exactly one Press sent for the two presses.
C11_TwoPressesOnePress ==
    [][((IOTask \/ ButtonUpdate)
          /\ bhist'.edge.burst = 2 /\ bhist.edge.rest
          /\ EdgeButton \in pin.pressed /\ ~pin.pending
          /\ now - bhist.edge.first >= BUTTON_DEBOUNCE_MS)
        => EdgeEvents(BUTTON_EVENT_PRESS)' = 1]_vars

\* C12: when the IO task has run with the stop button held continuously for
\* longer than the very-long-press time, exactly one LongPress and exactly
\* one VeryLongPress event have been sent for that press.
C12_VeryLongPressOnce ==
    [][(IOTask /\ bhist'.edge.burst = 1 /\ EdgeButton \in pin.pressed
          /\ btn[EdgeButton].isPressed
          /\ now - bhist.edge.first > MOA_BUTTON_DEFAULT_VERY_LONG_PRESS_MS)
        => (EdgeEvents(BUTTON_EVENT_LONG_PRESS)' = 1
            /\ EdgeEvents(BUTTON_EVENT_VERY_LONG_PRESS)' = 1)]_vars

\* a button was held past the long-press time, its LongPress was sent, and it
\* was released and pressed again (a fresh press edge reset longPressFired)
C10_Witness ==
    /\ btn[0].isPressed /\ btn[0].pressStartTime > BUTTON_LONG_PRESS_MS
    /\ ~btn[0].longPressFired
    /\ Len(queue) >= 3
    /\ queue[1].value = BUTTON_EVENT_PRESS
    /\ \E k \in 1..Len(queue) : queue[k] = Cmd(CONTROL_TYPE_BUTTON, COMMAND_BUTTON_STOP,
                                                 BUTTON_EVENT_LONG_PRESS)


-----------------------------------------------------------------------------
(* SpecDet: one threshold detector, its sample buffer and its zone.  The    *)
(* three detectors share nothing but the event queue, so a behaviour        *)
(* follows one of them: the one whose setNumSamples is called first.  The   *)
(* sensor task calls update() with a reading; the control task receives.    *)
(* dhist counts the update() calls and the accepted readings since the      *)
(* buffer was last reset, and adds up those readings until it is full.      *)

MaxSamples == 3

BattReadings == {19000, 19950, 20050, 20100, 21000, 24950, 25050}
CurrentReadings == {0, 145, 148, 152, 0 - 148, 0 - 152}
TempReadings == {500, 580, 590, 610, DEVICE_DISCONNECTED_C}

Readings(k) ==
    CASE k = "battery" -> BattReadings
      [] k = "current" -> CurrentReadings
      [] OTHER -> TempReadings

detOther == <<state, esc, timers, devQueue, alarm, api, rc, busg, curState,
              btn, pin, now, bhist, ind, tmr, mcp, io>>

\* the reading is one update() takes into its buffer
Accepted(k, reading) == ~(k = "temperature" /\ reading = DEVICE_DISCONNECTED_C)

\* the thresholds of detector k, each with its hysteresis
Thresholds(k) ==
    CASE k = "battery" -> {<<BATT_THRESHOLD_LOW, BATT_HYSTERESIS>>,
                           <<BATT_THRESHOLD_HIGH, BATT_HYSTERESIS>>}
      [] k = "current" -> {<<CURRENT_THRESHOLD_OVERCURRENT, CURRENT_HYSTERESIS>>,
                           <<CURRENT_THRESHOLD_REVERSE, CURRENT_HYSTERESIS>>}
      [] OTHER -> {<<TEMP_THRESHOLD_TARGET, TEMP_HYSTERESIS>>}

\* threshold - hysteresis/2 <= average <= threshold + hysteresis/2
InBand(a, th) ==
    /\ 2 * a.sum >= a.n * (2 * th[1] - th[2])
    /\ 2 * a.sum <= a.n * (2 * th[1] + th[2])

\* The run of averages that stay within hysteresis/2 of one threshold: the
\* threshold, the number of update() calls in the run (counted up to
\* MaxRun), the events they sent and the zones the detector left.  An
\* average outside every band, or a buffer that is not full, ends the run.
MaxRun == 3
BandAfter(k, d, sent) ==
    LET a == calculateAverage(d)
        in == {th \in Thresholds(k) : InBand(a, th)}
        gone == IF d.zone # det[k].zone THEN {det[k].zone} ELSE {}
    IN IF ~isAveragingReady(d) \/ in = {}
       THEN NoBand
       ELSE LET th == CHOOSE x \in in : TRUE
            IN IF dhist.band.len > 0 /\ dhist.band.t = th[1]
               THEN [t |-> th[1],
                     len |-> IF dhist.band.len < MaxRun THEN dhist.band.len + 1 ELSE MaxRun,
                     events |-> IF dhist.band.events < MaxRun
                                THEN dhist.band.events + sent ELSE MaxRun,
                     left |-> dhist.band.left \cup gone]
               ELSE [t |-> th[1], len |-> 1, events |-> sent, left |-> gone]

\* The run of battery averages that starts at RiseFrom and rises, never
\* falling, to RiseTo: the zone before its first update, the last average
\* (as the sum of the buffer), the number of updates (counted up to MaxRun),
\* the events sent, whether each of them was a change from LOW to MEDIUM
\* made by the first update of the run with an average of at least
\* low + hysteresis, and whether the run has arrived at RiseTo.
RiseFrom == BATT_THRESHOLD_LOW - 1000
RiseTo == BATT_THRESHOLD_LOW + 1000
RiseAfter(d, sent) ==
    LET a == calculateAverage(d)
        r == dhist.rise
        up == AvgGE(a, BATT_THRESHOLD_LOW + BATT_HYSTERESIS)
    IN IF ~isAveragingReady(d) THEN NoRise
       ELSE IF a.sum = RiseFrom * a.n
       THEN [on |-> TRUE, start |-> det.battery.zone, prev |-> a.sum, steps |-> 1,
             events |-> sent, good |-> sent = 0, crossed |-> FALSE, done |-> FALSE]
       ELSE IF r.on /\ ~r.done /\ a.sum >= r.prev /\ a.sum <= RiseTo * a.n
       THEN [on |-> TRUE, start |-> r.start, prev |-> a.sum,
             steps |-> IF r.steps < MaxRun THEN r.steps + 1 ELSE MaxRun,
             events |-> IF r.events < MaxRun THEN r.events + sent ELSE MaxRun,
             good |-> r.good /\ (sent = 1 => /\ det.battery.zone = "BATT_LOW"
                                             /\ d.zone = "BATT_MEDIUM"
                                             /\ up /\ ~r.crossed),
             crossed |-> r.crossed \/ up,
             done |-> a.sum = RiseTo * a.n]
       ELSE NoRise

\* the history after update() of detector k on a reading; recent holds the
\* accepted readings since setNumSamples, the newest last, at most _numSamples
DetHistoryAfter(k, reading, r) ==
    LET d == det[k]
        ok == Accepted(k, reading)
        filling == ok /\ dhist.valid < d.numSamples
    IN [dhist EXCEPT !.calls = IF @ <= d.numSamples THEN @ + 1 ELSE @,
                     !.valid = IF ok /\ @ <= d.numSamples THEN @ + 1 ELSE @,
                     !.total = IF filling THEN @ + reading
                               ELSE IF ok THEN 0 ELSE @,
                     !.prev = d.zone,
                     !.sent = Len(r.sent),
                     !.band = IF ok THEN BandAfter(k, r.d, Len(r.sent)) ELSE @,
                     !.rise = IF k = "battery" THEN RiseAfter(r.d, Len(r.sent)) ELSE @,
                     !.disconnected = (reading = DEVICE_DISCONNECTED_C),
                     !.recent = IF ~ok THEN @
                                ELSE IF Len(@) < d.numSamples THEN Append(@, reading)
                                ELSE Append(Tail(@), reading)]

\* setNumSamples(numSamples) on detector k
DetSetNumSamples(k) ==
    \E numSamples \in 0..MaxSamples :
        /\ dhist.kind \in {"none", k}
        /\ det' = [det EXCEPT ![k] = setNumSamples(@, numSamples)]
        /\ dhist' = [NoDetHistory EXCEPT !.kind = k, !.prev = det[k].zone]
        /\ UNCHANGED <<queue, last>> /\ UNCHANGED detOther

\* update() of detector k, the reading being what the sensor gives
DetUpdate(k) ==
    \E reading \in Readings(k) :
        /\ dhist.kind = k
        /\ det[k].numSamples <= MaxSamples
        /\ queue = <<>>
        /\ LET r == detectorUpdate(k, det[k], reading)
           IN /\ det' = [det EXCEPT ![k] = r.d]
              /\ dhist' = DetHistoryAfter(k, reading, r)
              /\ queue' = IF r.sent = <<>> THEN queue ELSE xQueueSend(queue, r.sent[1])
              /\ last' = NoLast
        /\ UNCHANGED detOther

MoaBattControl_setNumSamples == DetSetNumSamples("battery")
MoaCurrentControl_setNumSamples == DetSetNumSamples("current")
MoaTempControl_setNumSamples == DetSetNumSamples("temperature")
MoaBattControl_update == DetUpdate("battery")
MoaCurrentControl_updateReading == DetUpdate("current")
MoaTempControl_update == DetUpdate("temperature")

NextDet ==
    \/ MoaBattControl_setNumSamples
    \/ MoaCurrentControl_setNumSamples
    \/ MoaTempControl_setNumSamples
    \/ MoaBattControl_update
    \/ MoaCurrentControl_updateReading
    \/ MoaTempControl_update
    \/ ControlTask

SpecDet == Init /\ [][NextDet]_vars

\* the detector a behaviour of SpecDet follows, and whether update() was its last step
Followed == det[dhist.kind]
AnyUpdate == MoaBattControl_update \/ MoaCurrentControl_updateReading \/ MoaTempControl_update

C14_NoEventInBand == dhist.band.len > 0 => dhist.band.events = 0

\* C14 as the code has it: during such a run the detector never goes back
\* to a zone it has left in the run, so no threshold is crossed twice.
C14_NoWayBackInBand == dhist.band.len > 0 => Followed.zone \notin dhist.band.left

\* three or more updates in a row stayed within one band, and one of them
\* changed the zone
C14_Witness ==
    dhist.band.len = MaxRun /\ dhist.band.events = 1 /\ dhist.band.left # {}

\* C15: with N configured samples, the first N-1 update() calls after
\* construction or setNumSamples evaluate no zone change and send no event,
\* isAveragingReady() is false after each of them and true after the N-th
\* call, and the N-th call evaluates the zone against the mean of the N
\* readings of those calls.
C15_ReadyAtNthCall ==
    [][AnyUpdate =>
        LET k == dhist.kind
            N == det[k].numSamples
        IN /\ dhist'.calls < N =>
                /\ ~isAveragingReady(det'[k])
                /\ det'[k].zone = det[k].zone /\ queue' = queue
           /\ dhist'.calls = N =>
                /\ isAveragingReady(det'[k])
                /\ det'[k].zone = zoneAfter(k, det[k].zone, [sum |-> dhist'.total, n |-> N])]_vars

\* C15 as the code has it: the calls that count are those whose reading is
\* taken into the buffer, which for the temperature detector leaves out a
\* call that finds the sensor disconnected; such a call changes nothing.
C15_ReadyAtNthReading ==
    [][AnyUpdate =>
        LET k == dhist.kind
            N == det[k].numSamples
        IN /\ (dhist.valid <= N /\ dhist'.valid = dhist.valid) =>
                (det' = det /\ queue' = queue)
           /\ isAveragingReady(det'[k]) <=> dhist'.valid >= N
           /\ dhist'.valid < N => (det'[k].zone = det[k].zone /\ queue' = queue)
           /\ (dhist'.valid = N /\ dhist.valid = N - 1) =>
                /\ calculateAverage(det'[k]) = [sum |-> dhist'.total, n |-> N]
                /\ det'[k].zone = zoneAfter(k, det[k].zone, [sum |-> dhist'.total, n |-> N])
                /\ Len(queue') = Len(queue) + (IF det'[k].zone # det[k].zone THEN 1 ELSE 0)]_vars

\* the last of MaxSamples readings has just filled the buffer of the
\* temperature detector after a call that found the sensor disconnected, the
\* readings differ, and their mean has changed the zone
C15_Witness ==
    /\ dhist.kind = "temperature"
    /\ Followed.numSamples = MaxSamples
    /\ dhist.valid = MaxSamples /\ dhist.calls > MaxSamples
    /\ Followed.samples[1] # Followed.samples[MaxSamples]
    /\ dhist.sent = 1 /\ Followed.zone = "ABOVE_TARGET"

\* C16: once averaging is ready, the battery zone after update() follows
\* from the zone before and the average: LOW becomes MEDIUM exactly when the
\* average is at least low + hysteresis; MEDIUM becomes LOW exactly when the
\* average is at most low, and otherwise HIGH exactly when it is at least
\* high; HIGH becomes MEDIUM exactly when the average is at most
\* high - hysteresis; in every other case the zone stays, so no update moves
\* the zone between LOW and HIGH.
C16_BatteryZoneTable ==
    [][MoaBattControl_update =>
        LET before == det.battery.zone
            after == det'.battery.zone
            avg == calculateAverage(det'.battery)
            lowUp == avg.sum >= (BATT_THRESHOLD_LOW + BATT_HYSTERESIS) * avg.n
            lowDown == avg.sum <= BATT_THRESHOLD_LOW * avg.n
            highUp == avg.sum >= BATT_THRESHOLD_HIGH * avg.n
            highDown == avg.sum <= (BATT_THRESHOLD_HIGH - BATT_HYSTERESIS) * avg.n
        IN isAveragingReady(det'.battery) =>
             /\ before = "BATT_LOW" =>
                   after = (IF lowUp THEN "BATT_MEDIUM" ELSE "BATT_LOW")
             /\ before = "BATT_MEDIUM" =>
                   after = (IF lowDown THEN "BATT_LOW"
                            ELSE IF highUp THEN "BATT_HIGH" ELSE "BATT_MEDIUM")
             /\ before = "BATT_HIGH" =>
                   after = (IF highDown THEN "BATT_MEDIUM" ELSE "BATT_HIGH")
             /\ {before, after} # {"BATT_LOW", "BATT_HIGH"}]_vars

\* the battery detector, averaging MaxSamples readings, went up to HIGH and
\* has just come down to MEDIUM, with one event
C16_Witness ==
    /\ dhist.kind = "battery"
    /\ Followed.numSamples = MaxSamples /\ isAveragingReady(Followed)
    /\ dhist.prev = "BATT_HIGH" /\ Followed.zone = "BATT_MEDIUM" /\ dhist.sent = 1

\* C17: with low = 20.0 V and hysteresis = 0.1 V, a battery detector whose
\* average rises, never falling, from 19.0 V to 21.0 V has sent exactly one
\* event when the run is over: a change from LOW to MEDIUM, made by the
\* first update whose average was at least 20.1 V.
C17_RiseOneEvent ==
    dhist.rise.done => (dhist.rise.events = 1 /\ dhist.rise.good)

\* C17 as the code has it: so it is for a detector that is in zone LOW when
\* the run begins.
C17_RiseFromLowOneEvent ==
    (dhist.rise.done /\ dhist.rise.start = "BATT_LOW")
        => (dhist.rise.events = 1 /\ dhist.rise.good)

\* a detector in LOW, averaging MaxSamples readings, has gone through a
\* rise from 19.0 V to 21.0 V in three or more updates
C17_Witness ==
    /\ dhist.kind = "battery" /\ Followed.numSamples = MaxSamples
    /\ dhist.rise.done /\ dhist.rise.start = "BATT_LOW" /\ dhist.rise.steps = MaxRun
    /\ dhist.rise.events = 1 /\ Followed.zone = "BATT_MEDIUM"

-----------------------------------------------------------------------------
(* Claims about Surfing, the throttle timers and the stop button, checked   *)
(* under Spec and, for what must eventually happen, under SpecLive          *)

\* C18: when the handling of an event takes the state machine out of Surfing
\* (to Idle, Init, OverCurrent, OverHeating or BatteryLow), the throttle
\* timer and the full-throttle timer are both stopped when the handling ends.
C18_LeavingSurfingStopsTimers ==
    [][(state = "Surfing" /\ state' # "Surfing")
       => (/\ ~timers'[TIMER_ID_THROTTLE].active
           /\ ~timers'[TIMER_ID_FULL_THROTTLE].active)]_vars

IsStopLongPress(cmd) ==
    /\ cmd.controlType = CONTROL_TYPE_BUTTON
    /\ cmd.commandType = COMMAND_BUTTON_STOP
    /\ cmd.value = BUTTON_EVENT_LONG_PRESS

\* C20: in Idle, Surfing, OverHeating, OverCurrent and BatteryLow the
\* handling of a long press of the stop button ends in Init with the motor
\* stopped: no ramp in progress and the output duty at min_duty.
C20_StopLongPressToInit ==
    [][(/\ state # "Init"
        /\ queue # <<>>
        /\ IsStopLongPress(Head(queue))
        /\ queue' = Tail(queue))
       => (state' = "Init" /\ MotorStopped(esc'))]_vars

-----------------------------------------------------------------------------
(* SpecLive: the button component, the throttle timers and the control task *)
(* with the scheduling the firmware has.  The control task blocks on the    *)
(* queue with portMAX_DELAY and runs whenever an event waits; a one-shot    *)
(* timer that stays armed expires.  No detector sends anything.             *)

timerExpires(id) == timerCallback /\ timers[id].active /\ ~timers'[id].active

NextLive ==
    \/ setEventQueue
    \/ pushButtonEvent
    \/ timerCallback
    \/ ControlTask
    \/ updateESC

SpecLive ==
    /\ Init /\ [][NextLive]_vars
    /\ WF_vars(ControlTask)
    /\ WF_vars(timerExpires(TIMER_ID_THROTTLE))
    /\ WF_vars(timerExpires(TIMER_ID_FULL_THROTTLE))

\* the press of the 25% button has just been handled in Idle
SurfingAt25FromIdle ==
    /\ state = "Surfing" /\ last.from = "Idle"
    /\ last.ev.controlType = CONTROL_TYPE_BUTTON
    /\ last.ev.commandType = COMMAND_BUTTON_25

\* the expiry of the throttle timer has just been handled in Surfing
TimedOut ==
    /\ last.from = "Surfing"
    /\ last.ev = Cmd(CONTROL_TYPE_TIMER, TIMER_ID_THROTTLE, 0)
    /\ state = "Idle" /\ esc.duty = minThrottle

ButtonArrived == \E i \in 1..Len(queue) : queue[i].controlType = CONTROL_TYPE_BUTTON

C19_ArmedSurfingTimesOut ==
    (SurfingAt25FromIdle /\ timers[TIMER_ID_THROTTLE].active) ~> (TimedOut \/ ButtonArrived)

-----------------------------------------------------------------------------
(* Entry actions, checked under Spec *)

\* C21: every change of the active state runs the onEnter of the new state
\* exactly once while the event that caused the change is handled.
C21_OnEnterOncePerTransition ==
    [][state' # state => last'.entered = <<state'>>]_vars

-----------------------------------------------------------------------------
(* The dispatcher under button events of every id from 0 to one past the    *)
(* last button and every sub-event, events of a source handleEvent does not *)
(* know, and the alarm code of each detector.                               *)

UnknownControlType == CONTROL_TYPE_TIMER - 1
AnyButtonIds == 0..(COMMAND_BUTTON_100 + 1)
AnySubEvents == BUTTON_EVENT_PRESS..BUTTON_EVENT_VERY_LONG_PRESS
AlarmEvents ==
    {Cmd(CONTROL_TYPE_CURRENT, COMMAND_CURRENT_OVERCURRENT, 0),
     Cmd(CONTROL_TYPE_TEMPERATURE, COMMAND_TEMP_CROSSED_ABOVE, 0),
     Cmd(CONTROL_TYPE_BATTERY, COMMAND_BATT_LEVEL_LOW, 0)}

\* MoaButtonControl::pushButtonEvent with an arbitrary id and sub-event
pushAnyButtonEvent ==
    \E commandId \in AnyButtonIds :
      \E eventType \in AnySubEvents :
        Produce(Cmd(CONTROL_TYPE_BUTTON, commandId, eventType))

\* xQueueSend of a ControlCommand whose controlType is none of CONTROL_TYPE_*
pushUnknownEvent ==
    \E c \in {COMMAND_BUTTON_STOP, COMMAND_BUTTON_25} :
        Produce(Cmd(UnknownControlType, c, BUTTON_EVENT_PRESS))

pushAlarmEvent == \E cmd \in AlarmEvents : Produce(cmd)

NextSM ==
    \/ setEventQueue
    \/ pushAnyButtonEvent
    \/ pushUnknownEvent
    \/ pushAlarmEvent
    \/ timerCallback
    \/ ControlTask

SpecSM == Init /\ [][NextSM]_vars

-----------------------------------------------------------------------------
(* Claims about the transition table *)

IsButton(cmd, ids, subEvents) ==
    /\ cmd.controlType = CONTROL_TYPE_BUTTON
    /\ cmd.commandType \in ids
    /\ cmd.value \in subEvents

ThrottleButtons ==
    {COMMAND_BUTTON_25, COMMAND_BUTTON_50, COMMAND_BUTTON_75, COMMAND_BUTTON_100}

IsCode(cmd, ct, codes) == cmd.controlType = ct /\ cmd.commandType \in codes

\* the entries of the transition table: the (state, event) pairs for which it
\* names a resulting state or an action
InTable(s, cmd) ==
    \/ IsStopLongPress(cmd)
    \/ s = "Init" /\ IsButton(cmd, {COMMAND_BUTTON_STOP}, {BUTTON_EVENT_VERY_LONG_PRESS})
    \/ s \in {"Idle", "Surfing"} /\ IsButton(cmd, ThrottleButtons, {BUTTON_EVENT_PRESS})
    \/ s = "Surfing" /\ IsCode(cmd, CONTROL_TYPE_TIMER,
                               {TIMER_ID_THROTTLE, TIMER_ID_FULL_THROTTLE})
    \/ s \in {"Surfing", "OverHeating", "BatteryLow"}
         /\ IsCode(cmd, CONTROL_TYPE_CURRENT, {COMMAND_CURRENT_OVERCURRENT})
    \/ s \in {"Surfing", "OverCurrent", "BatteryLow"}
         /\ IsCode(cmd, CONTROL_TYPE_TEMPERATURE, {COMMAND_TEMP_CROSSED_ABOVE})
    \/ s \in {"Surfing", "OverHeating", "OverCurrent"}
         /\ IsCode(cmd, CONTROL_TYPE_BATTERY, {COMMAND_BATT_LEVEL_LOW})
    \/ s = "OverCurrent" /\ IsCode(cmd, CONTROL_TYPE_CURRENT, {COMMAND_CURRENT_NORMAL})
    \/ s = "OverHeating" /\ IsCode(cmd, CONTROL_TYPE_TEMPERATURE, {COMMAND_TEMP_CROSSED_BELOW})
    \/ s = "BatteryLow" /\ IsCode(cmd, CONTROL_TYPE_BATTERY,
                                  {COMMAND_BATT_LEVEL_MEDIUM, COMMAND_BATT_LEVEL_HIGH})

\* C22: the handling of an event that is not an entry of the transition table
\* for the active state leaves the state unchanged and does nothing to the
\* throttle, the motor or the timers.
C22_OffTableIsNoOp ==
    [][(/\ queue # <<>>
        /\ ~InTable(state, Head(queue))
        /\ queue' = Tail(queue))
       => (state' = state /\ esc' = esc /\ timers' = timers)]_vars

LockedStates == {"Init", "OverHeating", "OverCurrent", "BatteryLow"}

\* C23: in Init, OverHeating, OverCurrent and BatteryLow the handling of an
\* event of the 25/50/75/100 buttons, whatever its sub-event, changes neither
\* the state nor the throttle nor the timers; in Init only a STOP long press
\* changes the state, to Idle, and a STOP very long press turns the
\* configuration mode on and leaves the state Init.
C23_LockedStatesIgnoreThrottleButtons ==
    [][(queue # <<>> /\ queue' = Tail(queue))
       => (/\ (state \in LockedStates /\ IsButton(Head(queue), ThrottleButtons, AnySubEvents))
                => (state' = state /\ esc' = esc /\ timers' = timers)
           /\ (state = "Init" /\ state' # state)
                => (IsStopLongPress(Head(queue)) /\ state' = "Idle")
           /\ (state = "Init" /\ IsStopLongPress(Head(queue))) => state' = "Idle"
           /\ (state = "Init" /\ IsButton(Head(queue), {COMMAND_BUTTON_STOP},
                                          {BUTTON_EVENT_VERY_LONG_PRESS}))
                => (state' = "Init" /\ ind'.configModeActive))]_vars

\* an event of a throttle button has just been handled in BatteryLow while a
\* throttle level was engaged and the throttle timer was running
C23_Witness ==
    /\ last.from = "BatteryLow" /\ state = "BatteryLow"
    /\ IsButton(last.ev, ThrottleButtons, AnySubEvents)
    /\ esc.targetThrottle > minThrottle
    /\ timers[TIMER_ID_THROTTLE].active

ButtonRange == COMMAND_BUTTON_STOP..COMMAND_BUTTON_100

IsInvalidInput(cmd) ==
    \/ cmd.controlType = UnknownControlType
    \/ cmd.controlType = CONTROL_TYPE_BUTTON /\ cmd.commandType \notin ButtonRange

\* C24: in every state the handling of an event of an unknown source, or of a
\* Button event whose id is outside STOP..100, changes neither the state nor
\* the throttle target nor the timers.
C24_InvalidInputIsNoOp ==
    [][(queue # <<>> /\ IsInvalidInput(Head(queue)) /\ queue' = Tail(queue))
       => (/\ state' = state
           /\ esc'.targetThrottle = esc.targetThrottle
           /\ timers' = timers)]_vars

\* C24 for the events of an unknown source alone
C24_UnknownSourceIsNoOp ==
    [][(queue # <<>> /\ Head(queue).controlType = UnknownControlType
                     /\ queue' = Tail(queue))
       => (state' = state /\ esc' = esc /\ timers' = timers)]_vars

-----------------------------------------------------------------------------
(* The control core when the mutex of the port expander stops being         *)
(* available: from then on every acquireMutex() times out.                  *)

\* xSemaphoreTake(_mutex, timeout) fails from now on
mutexFault ==
    /\ ~ind.fault
    /\ ind' = [ind EXCEPT !.fault = TRUE]
    /\ UNCHANGED <<state, esc, timers, devQueue, queue, last, alarm, busg, otherVars>>

NextFault ==
    \/ setEventQueue
    \/ pushButtonEvent
    \/ pushAlarmEvent
    \/ timerCallback
    \/ ControlTask
    \/ updateESC
    \/ mutexFault

SpecFault == Init /\ [][NextFault]_vars

SafetyStateOf(cmd) ==
    CASE cmd.controlType = CONTROL_TYPE_CURRENT -> "OverCurrent"
      [] cmd.controlType = CONTROL_TYPE_TEMPERATURE -> "OverHeating"
      [] cmd.controlType = CONTROL_TYPE_BATTERY -> "BatteryLow"

\* C25: with the mutex never available, the handling of an alarm event in
\* Surfing ends in the safety state of that alarm with the output duty at
\* min_duty, the LED port writes on the way having failed.
C25_AlarmUnderMutexFault ==
    [][(/\ ind.fault /\ state = "Surfing"
        /\ queue # <<>> /\ Head(queue) \in AlarmEvents
        /\ queue' = Tail(queue))
       => (/\ state' = SafetyStateOf(Head(queue))
           /\ esc'.duty = minThrottle
           /\ last'.port # "ok")]_vars

\* C25 for the overcurrent and the overheat alarm
C25_CurrentTempAlarmUnderMutexFault ==
    [][(/\ ind.fault /\ state = "Surfing"
        /\ queue # <<>> /\ Head(queue) \in AlarmEvents
        /\ Head(queue).controlType # CONTROL_TYPE_BATTERY
        /\ queue' = Tail(queue))
       => (/\ state' = SafetyStateOf(Head(queue))
           /\ MotorStopped(esc')
           /\ last'.port = "failed")]_vars

-----------------------------------------------------------------------------
(* SpecTimer: the timer interface of MoaDevicesManager called in any order, *)
(* with time.  S.due: the time of the last successful startTimer of an id   *)
(* plus its duration; S.fired: expiries since then; S.earlier: the deadline *)
(* that start replaced when the timer was running.  A stop forgets them.    *)

MaxTime == 4
MaxDuration == 2
TimerIdInputs == {TIMER_ID_THROTTLE, TIMER_ID_FULL_THROTTLE, MOA_TIMER_MAX_INSTANCES}

timerOther == <<state, esc, devQueue, alarm, api, rc, busg, curState, btn, pin, now,
                bhist, det, dhist, ind, mcp, io>>

MoaDevicesManager_startTimer ==
    \E timerId \in TimerIdInputs :
      \E durationMs \in 1..MaxDuration :
        LET W == startTimer(World, timerId, durationMs)
            ret == timerId < MOA_TIMER_MAX_INSTANCES /\ devQueue
            wasActive == ret /\ timers[timerId].active
            S == IF ret
                 THEN [MoaTimer_start(tmr, wasActive, timerId, durationMs) EXCEPT
                         !.due[timerId] = tmr.now + durationMs,
                         !.fired[timerId] = 0,
                         !.earlier[timerId] = IF wasActive THEN tmr.deadline[timerId] ELSE 0]
                 ELSE tmr
        IN /\ timers' = W.timers
           /\ tmr' = [S EXCEPT !.call = [name |-> "startTimer", id |-> timerId,
                                         ret |-> ret, wasActive |-> wasActive]]
           /\ UNCHANGED <<queue, last, timerOther>>

MoaDevicesManager_stopTimer ==
    \E timerId \in TimerIdInputs :
        LET W == stopTimer(World, timerId)
            ret == timerId < MOA_TIMER_MAX_INSTANCES
            wasActive == ret /\ timers[timerId].active
            S == IF ret
                 THEN [tmr EXCEPT !.due[timerId] = 0, !.fired[timerId] = 0,
                                  !.earlier[timerId] = 0]
                 ELSE tmr
        IN /\ timers' = W.timers
           /\ tmr' = [S EXCEPT !.call = [name |-> "stopTimer", id |-> timerId,
                                         ret |-> ret, wasActive |-> wasActive]]
           /\ UNCHANGED <<queue, last, timerOther>>

\* the timer service runs MoaTimer::timerCallback of a one-shot timer at its
\* deadline; in this specification the control task has emptied the queue by then
timerExpiry ==
    \E id \in 0..(MOA_TIMER_MAX_INSTANCES - 1) :
        /\ timers[id].active /\ tmr.deadline[id] = tmr.now
        /\ queue = <<>>
        /\ timers' = [timers EXCEPT ![id].active = FALSE]
        /\ queue' = xQueueSend(queue, Cmd(CONTROL_TYPE_TIMER, id, 0))
        /\ last' = NoLast
        /\ tmr' = [tmr EXCEPT !.fired[id] = @ + 1, !.call = NoCall]
        /\ UNCHANGED timerOther

\* one tick of the timer service clock; a timer that is due expires first
advance ==
    /\ tmr.now < MaxTime
    /\ \A id \in 0..(MOA_TIMER_MAX_INSTANCES - 1) :
           timers[id].active => tmr.deadline[id] > tmr.now
    /\ queue = <<>>
    /\ tmr' = [tmr EXCEPT !.now = @ + 1, !.call = NoCall]
    /\ UNCHANGED <<timers, queue, last, timerOther>>

NextTimer ==
    \/ setEventQueue
    \/ MoaDevicesManager_startTimer
    \/ MoaDevicesManager_stopTimer
    \/ timerExpiry
    \/ advance
    \/ ControlTask

SpecTimer == Init /\ [][NextTimer]_vars

ValidTimerIds == 0..(MOA_TIMER_MAX_INSTANCES - 1)

C27_StopTimerIdempotent ==
    [][(MoaDevicesManager_stopTimer /\ tmr'.call.id \in ValidTimerIds)
       => (/\ tmr'.call.ret
           /\ ~timers'[tmr'.call.id].active
           /\ \A id \in ValidTimerIds \ {tmr'.call.id} : timers'[id] = timers[id]
           /\ (tmr.call.name = "stopTimer" /\ tmr.call.id = tmr'.call.id)
                => (tmr'.call.ret = tmr.call.ret /\ timers' = timers))]_vars

\* stopTimer has just stopped a running timer
C27_Witness ==
    /\ tmr.call.name = "stopTimer" /\ tmr.call.wasActive /\ tmr.call.ret
    /\ ~timers[tmr.call.id].active /\ timers[tmr.call.id].created

-----------------------------------------------------------------------------
(* The step down from full throttle, checked under Spec *)

IsTimerEvent(cmd, id) == cmd.controlType = CONTROL_TYPE_TIMER /\ cmd.commandType = id

DutyOf(percent) == minThrottle + (percent * (maxThrottle - minThrottle)) \div 100

\* C28: in Surfing the handling of the full-throttle timer's event sets the
\* throttle target to 75 %, leaves the throttle timer running and the state
\* Surfing, and does not stop the motor; the handling of the throttle timer's
\* event in Surfing ends in Idle with the motor stopped.
C28_StepDownThenIdle ==
    [][(state = "Surfing" /\ queue # <<>> /\ queue' = Tail(queue))
       => (/\ IsTimerEvent(Head(queue), TIMER_ID_FULL_THROTTLE)
                => (/\ state' = "Surfing"
                    /\ esc'.targetThrottle = DutyOf(ESC_BREAKING_MODE)
                    /\ esc'.ramping \/ esc'.duty = DutyOf(ESC_BREAKING_MODE)
                    /\ timers'[TIMER_ID_THROTTLE].active)
           /\ IsTimerEvent(Head(queue), TIMER_ID_THROTTLE)
                => (/\ state' = "Idle" /\ MotorStopped(esc')
                    /\ ~timers'[TIMER_ID_THROTTLE].active))]_vars

\* the full-throttle timer's event has just been handled in Surfing with the
\* motor at full throttle: the target is 75 % and the throttle timer runs
C28_Witness ==
    /\ last.from = "Surfing" /\ state = "Surfing"
    /\ IsTimerEvent(last.ev, TIMER_ID_FULL_THROTTLE)
    /\ esc.throttle = maxThrottle
    /\ esc.targetThrottle = DutyOf(ESC_BREAKING_MODE)
    /\ timers[TIMER_ID_THROTTLE].active

-----------------------------------------------------------------------------
(* The warning indicators, checked under Spec *)

\* C29: when the handling of a Current event ends, the overcurrent indicator
\* is on exactly if the code of the event is OVERCURRENT or
\* REVERSE_OVERCURRENT; when the handling of a Temperature event ends, the
\* overheat indicator is on exactly if the code is CROSSED_ABOVE.
C29_IndicatorsFollowCodes ==
    [][(queue # <<>> /\ queue' = Tail(queue))
       => (/\ Head(queue).controlType = CONTROL_TYPE_CURRENT
                => (ind'.lastOvercurrent
                      = (Head(queue).commandType \in {COMMAND_CURRENT_OVERCURRENT,
                                                      COMMAND_CURRENT_REVERSE_OVERCURRENT}))
           /\ Head(queue).controlType = CONTROL_TYPE_TEMPERATURE
                => (ind'.lastOverheat
                      = (Head(queue).commandType = COMMAND_TEMP_CROSSED_ABOVE)))]_vars

\* C29 for the Temperature events alone
C29_OverheatFollowsCode ==
    [][(queue # <<>> /\ queue' = Tail(queue)
        /\ Head(queue).controlType = CONTROL_TYPE_TEMPERATURE)
       => (ind'.lastOverheat = (Head(queue).commandType = COMMAND_TEMP_CROSSED_ABOVE))]_vars

-----------------------------------------------------------------------------
(* SpecMcp: IOTask (buttons, LED blinking) and ControlTask (indicators)     *)
(* calling the operations of MoaMcpDevice concurrently.                     *)

mcpOther == <<state, esc, timers, devQueue, queue, last, alarm, api, rc, busg, curState,
              btn, pin, now, bhist, det, dhist, tmr, ind, io>>

\* a task calls readPortA(), readInterruptCapturePortA() or writePortB()
mcpCall(t) ==
    \E o \in McpOps :
        /\ mcp.pc[t] = "idle"
        /\ mcp' = [mcp EXCEPT !.pc[t] = "acquire", !.op[t] = o, !.ret[t] = "none",
                              !.usedBus[t] = FALSE]
        /\ UNCHANGED mcpOther

\* acquireMutex() returns true
acquireMutex(t) ==
    /\ mcp.pc[t] = "acquire"
    /\ xSemaphoreTake(mcp.owner)
    /\ mcp' = [mcp EXCEPT !.owner = t, !.pc[t] = "bus"]
    /\ UNCHANGED mcpOther

\* acquireMutex() returns false after the timeout: the operation returns its
\* default (0 for the reads, nothing for writePortB)
acquireMutexTimeout(t) ==
    /\ mcp.pc[t] = "acquire"
    /\ ~xSemaphoreTake(mcp.owner)
    /\ mcp' = [mcp EXCEPT !.pc[t] = "idle", !.ret[t] = "default"]
    /\ UNCHANGED mcpOther

\* the transaction on the I2C bus begins (_mcp.readGPIOA(), _mcp.writeGPIOB(value), ...)
busBegin(t) ==
    /\ mcp.pc[t] = "bus"
    /\ mcp' = [mcp EXCEPT !.pc[t] = "busy", !.usedBus[t] = TRUE]
    /\ UNCHANGED mcpOther

\* the transaction ends
busEnd(t) ==
    /\ mcp.pc[t] = "busy"
    /\ mcp' = [mcp EXCEPT !.pc[t] = "release"]
    /\ UNCHANGED mcpOther

\* releaseMutex(), then the operation returns what it read
releaseMutex(t) ==
    /\ mcp.pc[t] = "release"
    /\ mcp' = [mcp EXCEPT !.owner = "none", !.pc[t] = "idle", !.ret[t] = "value"]
    /\ UNCHANGED mcpOther

NextMcp ==
    \E t \in McpTasks :
        \/ mcpCall(t)
        \/ acquireMutex(t)
        \/ acquireMutexTimeout(t)
        \/ busBegin(t)
        \/ busEnd(t)
        \/ releaseMutex(t)

SpecMcp == Init /\ [][NextMcp]_vars

OnBus == {t \in McpTasks : mcp.pc[t] = "busy"}
Holding == {t \in McpTasks : mcp.pc[t] \in {"bus", "busy", "release"}}

\* C30: at most one task at a time is in a bus transaction of the port
\* expander; a task holds the mutex exactly while it is between a successful
\* acquireMutex() and its releaseMutex(), so that an operation that has
\* returned holds nothing; and an operation whose acquireMutex() timed out
\* has made no bus access and has returned its default.
C30_BusMutualExclusion ==
    /\ Cardinality(OnBus) <= 1
    /\ Cardinality(Holding) <= 1
    /\ \A t \in McpTasks :
         /\ (t \in Holding) = (mcp.owner = t)
         /\ mcp.pc[t] = "busy" => mcp.owner = t
         /\ (mcp.pc[t] = "idle" /\ mcp.ret[t] = "default") => ~mcp.usedBus[t]
         /\ (mcp.pc[t] = "idle" /\ mcp.ret[t] = "value") => mcp.usedBus[t]
         /\ (mcp.pc[t] = "idle" /\ mcp.op[t] # "none") => mcp.ret[t] \in {"default", "value"}

\* one task is in its bus transaction and the other's operation has timed
\* out on the mutex and returned its default
C30_Witness ==
    \E t, u \in McpTasks :
        /\ t # u
        /\ mcp.pc[t] = "busy"
        /\ mcp.pc[u] = "idle" /\ mcp.ret[u] = "default" /\ ~mcp.usedBus[u]

-----------------------------------------------------------------------------
(* SpecIrq: the interrupt-driven button path with processInterrupt() taken   *)
(* statement by statement, so that pin changes and the interrupt handler     *)
(* fall between its steps.  The expander asserts INTA on a pin change and    *)
(* releases it when INTCAPA or GPIOA is read; the handler is attached to     *)
(* the falling edge of INTA.  Each of the two port reads takes the hardware  *)
(* bus mutex on its own and may time out.                                    *)

\* instants at which millis() is sampled in SpecIrq
IrqTimes == {0, 20, 60, 5060}

irqOther == <<state, esc, timers, devQueue, last, alarm, api, rc, busg, curState,
              det, dhist, ind, tmr, mcp, bhist>>

\* MoaButtonControl::isInterruptPending: the flag, or INTA still low
isInterruptPending(pending, intA) == pending \/ intA

\* time passes.  A pass of the IO task (20 ms period) is short beside the
\* instants sampled: the clock moves on when the task has nothing pending.
irqAdvance ==
    /\ io.pc = "idle" /\ ~isInterruptPending(pin.pending, io.intA)
    /\ \E t \in IrqTimes : t > now /\ now' = t
    /\ UNCHANGED <<btn, pin, queue, io>> /\ UNCHANGED irqOther

\* a contact changes.  INTA goes (or stays) low; on its falling edge the
\* handler runs: MoaButtonControl::handleInterrupt sets the flag.
edgeInterrupt ==
    /\ \E b \in PressableButtons :
          /\ pin' = [pressed |-> IF b \in pin.pressed THEN pin.pressed \ {b}
                                 ELSE pin.pressed \cup {b},
                     pending |-> pin.pending \/ ~io.intA]
          /\ io' = [io EXCEPT !.intA = TRUE, !.unread = TRUE,
                              !.setDuring = @ \/ (io.pc # "idle" /\ ~io.intA),
                              !.since[b] = now]
    /\ UNCHANGED <<btn, now, queue>> /\ UNCHANGED irqOther

\* IOTask finds isInterruptPending() true and enters processInterrupt:
\* _interruptPending = false; now = millis()
processInterrupt_enter ==
    /\ io.pc = "idle" /\ isInterruptPending(pin.pending, io.intA)
    /\ pin' = [pin EXCEPT !.pending = FALSE]
    /\ io' = [io EXCEPT !.pc = "entered", !.t = now]
    /\ UNCHANGED <<btn, now, queue>> /\ UNCHANGED irqOther

\* _mcpDevice.readInterruptCapturePortA(): clears the interrupt unless the
\* mutex timed out
processInterrupt_capture ==
    /\ io.pc = "entered"
    /\ \E mutexAcquired \in BOOLEAN :
          io' = [io EXCEPT !.pc = "captured", !.intA = @ /\ ~mutexAcquired,
                           !.timedOut = @ \/ ~mutexAcquired]
    /\ UNCHANGED <<btn, pin, now, queue>> /\ UNCHANGED irqOther

\* currentState = _mcpDevice.readPortA()
processInterrupt_read ==
    /\ io.pc = "captured"
    /\ \E mutexAcquired \in BOOLEAN :
          io' = [io EXCEPT !.pc = "read", !.cur = readPortA(pin.pressed, mutexAcquired),
                           !.intA = @ /\ ~mutexAcquired,
                           !.unread = @ /\ ~mutexAcquired,
                           !.timedOut = @ \/ ~mutexAcquired]
    /\ UNCHANGED <<btn, pin, now, queue>> /\ UNCHANGED irqOther

\* the loop over the buttons and the return of processInterrupt, then the
\* rest of the IOTask pass: checkLongPress
processInterrupt_return ==
    /\ io.pc = "read"
    /\ LET B1 == processInterrupt(ButtonWork, io.cur, io.t)
           B2 == checkLongPress(B1, now)
       IN /\ btn' = B2.btn
          /\ queue' = B2.queue
    /\ io' = [io EXCEPT !.pc = "idle", !.setDuring = FALSE]
    /\ UNCHANGED <<pin, now>> /\ UNCHANGED irqOther

\* an IOTask pass with no interrupt pending: checkLongPress only
IOTask_idlePass ==
    /\ io.pc = "idle" /\ ~isInterruptPending(pin.pending, io.intA)
    /\ LET B2 == checkLongPress(ButtonWork, now)
       IN /\ btn' = B2.btn
          /\ queue' = B2.queue
    /\ UNCHANGED <<pin, now, io>> /\ UNCHANGED irqOther

NextIrq ==
    \/ irqAdvance
    \/ edgeInterrupt
    \/ processInterrupt_enter
    \/ processInterrupt_capture
    \/ processInterrupt_read
    \/ processInterrupt_return
    \/ IOTask_idlePass

SpecIrq == Init /\ [][NextIrq]_vars

\* C31: no edge is lost: whenever the IO task is outside processInterrupt
\* and a contact has changed since the port was last read, the interrupt is
\* still pending (the flag is set or INTA is still asserted), so a read of the
\* port follows the edge.
C31_NoEdgeLost ==
    (io.pc = "idle" /\ io.unread) => isInterruptPending(pin.pending, io.intA)

\* the handler does nothing but set the flag
C31_HandlerOnlySetsFlag ==
    [][pin'.pressed # pin.pressed
        => /\ btn' = btn /\ queue' = queue /\ now' = now
           /\ io'.pc = io.pc /\ io'.cur = io.cur /\ io'.t = io.t
           /\ (pin'.pending # pin.pending => pin'.pending)]_vars

\* a flag set while processInterrupt is running is still set, or the edge was
\* covered by this run's read, when it returns
C31_FlagSetDuringRunKept ==
    [][(io.pc = "read" /\ io'.pc = "idle" /\ io.setDuring)
        => (pin'.pending \/ ~io'.unread)]_vars

\* as long as no port read has timed out on the mutex, no edge is lost
C31_NoEdgeLostWhileReadsSucceed ==
    (io.pc = "idle" /\ io.unread /\ ~io.timedOut)
        => isInterruptPending(pin.pending, io.intA)

\* events of the given kind for button i enqueued by the step
NewButtonEvents(i, eventType) ==
    Cardinality({k \in (Len(queue) + 1)..Len(queue') :
                    queue'[k] = Cmd(CONTROL_TYPE_BUTTON, pinToCommandId(i), eventType)})

\* processInterrupt finishes with a port value that differs from the
\* debounced state of button i
DifferenceObserved(i) ==
    /\ io.pc = "read" /\ io'.pc = "idle"
    /\ PinLow(io.cur, i) # btn[i].isPressed

InDebounceWindow(i) == (io.t - btn[i].lastChangeTime) < BUTTON_DEBOUNCE_MS

\* a difference inside the debounce window is ignored
DifferenceIgnored(i) ==
    /\ btn'[i].isPressed = btn[i].isPressed
    /\ btn'[i].lastChangeTime = btn[i].lastChangeTime
    /\ btn'[i].pressStartTime = btn[i].pressStartTime
    /\ NewButtonEvents(i, BUTTON_EVENT_PRESS) = 0
    /\ NewButtonEvents(i, BUTTON_EVENT_RELEASE) = 0

\* a difference at or after the interval is accepted at once
DifferenceAccepted(i) ==
    /\ btn'[i].isPressed = PinLow(io.cur, i)
    /\ btn'[i].lastChangeTime = io.t
    /\ (btn'[i].isPressed => btn'[i].pressStartTime = io.t)

\* C32 (as stated): a difference observed inside the debounce window is
\* ignored; one observed at or after the interval is accepted at once and
\* produces its Press or its Release event.
C32_DebounceWindowAsStated ==
    [][\A i \in Buttons : DifferenceObserved(i) =>
          IF InDebounceWindow(i) THEN DifferenceIgnored(i)
          ELSE /\ DifferenceAccepted(i)
               /\ NewButtonEvents(i, IF PinLow(io.cur, i) THEN BUTTON_EVENT_PRESS
                                     ELSE BUTTON_EVENT_RELEASE) = 1]_vars

\* C32 (amended): a difference observed inside the debounce window is
\* ignored; one observed at or after the interval is accepted at once, a
\* press producing its Press event and a release producing no event.
C32_DebounceWindow ==
    [][\A i \in Buttons : DifferenceObserved(i) =>
          IF InDebounceWindow(i) THEN DifferenceIgnored(i)
          ELSE /\ DifferenceAccepted(i)
               /\ NewButtonEvents(i, BUTTON_EVENT_PRESS)
                     = (IF PinLow(io.cur, i) THEN 1 ELSE 0)
               /\ NewButtonEvents(i, BUTTON_EVENT_RELEASE) = 0]_vars

\* button 0 was accepted as pressed (its Press event is in the queue), button
\* 1 was accepted as pressed and later as released, and a release of button
\* 0 read inside the window has been ignored
C32_Witness ==
    /\ io.pc = "idle" /\ ~io.timedOut
    /\ btn[0].isPressed /\ btn[0].lastChangeTime > 0
    /\ ~PinLow(io.cur, 0)
    /\ ~btn[1].isPressed /\ btn[1].lastChangeTime > btn[1].pressStartTime
    /\ \E k \in 1..Len(queue) :
          queue[k] = Cmd(CONTROL_TYPE_BUTTON, pinToCommandId(0), BUTTON_EVENT_PRESS)

-----------------------------------------------------------------------------
(* The zone moves of the current and the temperature detector (SpecDet)     *)

\* the buffered samples of detector k sum to at least / at most t per sample
MeanAtLeast(d, t) == sumSamples(d.samples, d.sampleCount) >= t * d.sampleCount
MeanAtMost(d, t) == sumSamples(d.samples, d.sampleCount) <= t * d.sampleCount

\* C33: in one update the current detector never moves directly between
\* OVERCURRENT and REVERSE_OVERCURRENT, leaves OVERCURRENT only with
\* average <= overcurrent threshold - hysteresis and REVERSE_OVERCURRENT only
\* with average >= reverse threshold + hysteresis; the temperature detector
\* enters ABOVE_TARGET only with average >= target and returns to BELOW_TARGET
\* only with average <= target - hysteresis.
C33_ZoneMoves ==
    [][/\ LET z == det["current"].zone
              d == det'["current"]
          IN /\ ~(z = "OVERCURRENT" /\ d.zone = "REVERSE_OVERCURRENT")
             /\ ~(z = "REVERSE_OVERCURRENT" /\ d.zone = "OVERCURRENT")
             /\ (z = "OVERCURRENT" /\ d.zone # z
                    => MeanAtMost(d, CURRENT_THRESHOLD_OVERCURRENT - CURRENT_HYSTERESIS))
             /\ (z = "REVERSE_OVERCURRENT" /\ d.zone # z
                    => MeanAtLeast(d, CURRENT_THRESHOLD_REVERSE + CURRENT_HYSTERESIS))
       /\ LET z == det["temperature"].zone
              d == det'["temperature"]
          IN /\ (z = "BELOW_TARGET" /\ d.zone = "ABOVE_TARGET"
                    => MeanAtLeast(d, TEMP_THRESHOLD_TARGET))
             /\ (z = "ABOVE_TARGET" /\ d.zone = "BELOW_TARGET"
                    => MeanAtMost(d, TEMP_THRESHOLD_TARGET - TEMP_HYSTERESIS))]_vars

\* the current detector has just left OVERCURRENT for NORMAL on an average
\* that is already at or below the reverse threshold
C33_Witness ==
    /\ dhist.kind = "current" /\ dhist.prev = "OVERCURRENT"
    /\ det["current"].zone = "NORMAL"
    /\ isAveragingReady(det["current"])
    /\ MeanAtMost(det["current"], CURRENT_THRESHOLD_REVERSE)

RECURSIVE SeqSum(_)
SeqSum(s) == IF s = <<>> THEN 0 ELSE Head(s) + SeqSum(Tail(s))

\* the slot of d's buffer that holds the j-th newest reading (j = 1: newest)
SlotOf(d, j) == ((d.sampleIndex + d.numSamples - j) % d.numSamples) + 1

\* C34: after k update() calls with valid readings the average is the mean
\* of the most recent min(k, N) readings: the buffer holds exactly those
\* readings, the next write goes to the oldest of them once the buffer is
\* full, the write index stays below N and the sample count stays at N, with
\* N between 1 and 32.
C34_AverageOfMostRecent ==
    dhist.kind # "none" =>
        LET d == Followed
            n == Len(dhist.recent)
        IN /\ d.numSamples >= 1 /\ d.numSamples <= MOA_BATT_MAX_SAMPLES
           /\ d.sampleIndex >= 0 /\ d.sampleIndex < d.numSamples
           /\ d.sampleCount = n /\ n <= d.numSamples
           /\ (dhist.valid <= d.numSamples => n = dhist.valid)
           /\ (dhist.valid >= d.numSamples => n = d.numSamples)
           /\ calculateAverage(d) = [sum |-> SeqSum(dhist.recent), n |-> n]
           /\ \A j \in 1..n : d.samples[SlotOf(d, j)] = dhist.recent[n + 1 - j]

\* a full buffer of three samples that has wrapped: more valid readings than
\* slots, the readings not all equal, the write index back inside the buffer
C34_Witness ==
    /\ dhist.kind \in {"battery", "current"}
    /\ Followed.numSamples = MaxSamples
    /\ dhist.valid > Followed.numSamples
    /\ Followed.sampleIndex = 1
    /\ dhist.recent[1] # dhist.recent[2] /\ dhist.recent[2] # dhist.recent[3]

\* C36: an update() of the temperature detector whose reading is the
\* sensor-disconnected value changes nothing: sample buffer, write index,
\* sample count, average and zone are as before and no event is enqueued.
C36_DisconnectedReadingSkipped ==
    [][(MoaTempControl_update /\ dhist'.disconnected)
        => /\ det' = det
           /\ calculateAverage(det'["temperature"]) = calculateAverage(det["temperature"])
           /\ queue' = queue]_vars

\* a disconnected reading has just been skipped by a detector that is ready
\* and ABOVE_TARGET, where a sample of -127 C would have pulled the average
\* below the lower threshold
C36_Witness ==
    /\ dhist.kind = "temperature" /\ dhist.disconnected
    /\ isAveragingReady(det["temperature"])
    /\ det["temperature"].zone = "ABOVE_TARGET"
    /\ dhist.prev = "ABOVE_TARGET"
    /\ queue = <<>>

-----------------------------------------------------------------------------
(* SpecESCFair: SpecESC with the tick taken again and again, the periodic  *)
(* call that MoaDevicesManager::updateESC is declared for.  No task of the  *)
(* firmware makes that call; the ramp is followed under the ticks given.    *)

SpecESCFair == Init /\ [][NextESC]_vars /\ WF_vars(CallUpdateThrottle)

\* a ramp started by setThrottlePercent is in progress
PercentRamp == api.op = "setThrottlePercent" /\ esc.ramping

Arrived == ~esc.ramping /\ esc.currentThrottle = esc.targetThrottle

\* one tick of a ramp started by setThrottlePercent: closer to the target, on
\* the same side of it, the flag cleared exactly on arrival
RampTick ==
    /\ esc'.targetThrottle = esc.targetThrottle
    /\ Abs(esc'.targetThrottle - esc'.currentThrottle)
          < Abs(esc.targetThrottle - esc.currentThrottle)
    /\ (esc.currentThrottle < esc.targetThrottle
          => esc.currentThrottle < esc'.currentThrottle
             /\ esc'.currentThrottle <= esc.targetThrottle)
    /\ (esc.currentThrottle > esc.targetThrottle
          => esc.currentThrottle > esc'.currentThrottle
             /\ esc'.currentThrottle >= esc.targetThrottle)
    /\ esc'.ramping = (esc'.currentThrottle # esc'.targetThrottle)
    /\ esc'.duty = esc'.currentThrottle

\* C35: after setThrottlePercent starts a ramp, each tick with no other
\* throttle command in between moves the current duty strictly closer to the
\* target without passing it and clears the ramping flag exactly on arrival at
\* the target; the step is never zero while the flag is set; and the ticks
\* bring the duty to the target unless another command is issued first.
C35_RampArrives ==
    /\ [](PercentRamp => esc.rampStep # 0 /\ esc.currentThrottle # esc.targetThrottle)
    /\ [][(PercentRamp /\ CallUpdateThrottle) => RampTick]_vars
    /\ ((PercentRamp /\ api.ticked) ~> (Arrived \/ ~api.ticked))

\* a ramp started by setThrottlePercent has arrived at max_duty after ticks,
\* the last step having been cut short at the target
C35_Witness ==
    /\ api.op = "setThrottlePercent" /\ api.ticked
    /\ Arrived
    /\ esc.currentThrottle = maxThrottle
    /\ esc.rampStep > 1
    /\ (maxThrottle - minThrottle) % esc.rampStep # 0

-----------------------------------------------------------------------------
(* Timer events and the arming that produced them (Spec)                    *)

\* the control task takes the expiry event of timer id off the queue
HandlesTimerEvent(id) ==
    /\ queue # <<>>
    /\ Head(queue) = Cmd(CONTROL_TYPE_TIMER, id, 0)
    /\ queue' = Tail(queue)

\* the step changes what the state machine controls
ActedOn == state' # state \/ esc' # esc \/ timers' # timers

\* C37: a Timer event the state machine acts on belongs to the timer's
\* current arming.  A one-shot timer is inactive from its expiry until it is
\* started again, so a Timer event of id that is acted on while timer id is
\* active was produced by an arming that a restart has since replaced.
C37_TimerEventOfCurrentArming ==
    [][\A id \in ValidTimerIds :
          (HandlesTimerEvent(id) /\ ActedOn) => ~timers[id].active]_vars

\* C38: a LongPress event is never enqueued for a button that was
\* physically released before the long-press duration had elapsed since its
\* accepted press (port reads that timed out on the mutex left aside).
C38_NoLongPressAfterRelease ==
    [][\A i \in Buttons :
          (NewButtonEvents(i, BUTTON_EVENT_LONG_PRESS) > 0 /\ ~io.timedOut)
             => \/ i \in pin.pressed
                \/ io.since[i] >= btn[i].pressStartTime + BUTTON_LONG_PRESS_MS]_vars

\* with the contacts at rest and nothing left to read, the debounced pressed
\* flag of every button equals its physical state
C38_FlagFollowsContact ==
    (io.pc = "idle" /\ ~isInterruptPending(pin.pending, io.intA) /\ ~io.timedOut)
        => \A i \in Buttons : btn[i].isPressed = (i \in pin.pressed)

-----------------------------------------------------------------------------
(* Surfing and its timers (SpecLive)                                        *)

TimerEventWaiting(id) ==
    \E k \in 1..Len(queue) : queue[k] = Cmd(CONTROL_TYPE_TIMER, id, 0)

\* timer id is running or its expiry event is waiting in the queue
TimerPending(id) == timers[id].active \/ TimerEventWaiting(id)

\* C39: whenever the state machine is in Surfing with the throttle target
\* above min_duty, the throttle timer or the full-throttle timer is running
\* or its expiry event is waiting in the queue.
C39_SurfingHasTimer ==
    (state = "Surfing" /\ esc.targetThrottle > minThrottle)
        => (TimerPending(TIMER_ID_THROTTLE) \/ TimerPending(TIMER_ID_FULL_THROTTLE))

\* the same for the device facade that has been given its event queue
C39_ArmedSurfingHasTimer == devQueue => C39_SurfingHasTimer

\* with no further button input Surfing ends in Idle with the motor stopped
C39_SurfingEnds ==
    (state = "Surfing") ~> ((state = "Idle" /\ MotorStopped(esc)) \/ ButtonArrived)

-----------------------------------------------------------------------------
(* Engaging a throttle level from Idle and from Surfing (Spec)              *)

ThrottleTimers == {TIMER_ID_THROTTLE, TIMER_ID_FULL_THROTTLE}

\* the control task handles the Press of throttle button b in Idle
EngagesFromIdle(b) ==
    /\ state = "Idle"
    /\ queue # <<>>
    /\ Head(queue) = Cmd(CONTROL_TYPE_BUTTON, b, BUTTON_EVENT_PRESS)
    /\ queue' = Tail(queue)

\* C40: engaging a throttle level from Idle leaves the throttle target and
\* the two throttle timers as re-engaging the same level from Surfing
\* (engageThrottle) would on the same devices; engaging 100 % arms the
\* full-throttle step-down timer and not the throttle timer, whose expiry
\* stops the motor.
C40_EngageSameFromIdle ==
    [][\A b \in ButtonIds \ {COMMAND_BUTTON_STOP} :
          EngagesFromIdle(b) =>
             LET W == engageThrottle(World, b)
             IN /\ esc'.targetThrottle = W.esc.targetThrottle
                /\ \A id \in ThrottleTimers : timers'[id].active = W.timers[id].active
                /\ (b = COMMAND_BUTTON_100 /\ devQueue
                      => /\ timers'[TIMER_ID_FULL_THROTTLE].active
                         /\ ~timers'[TIMER_ID_THROTTLE].active)]_vars

\* the throttle target alone is the same on both paths
C40_SameTarget ==
    [][\A b \in ButtonIds \ {COMMAND_BUTTON_STOP} :
          EngagesFromIdle(b) =>
             esc'.targetThrottle = engageThrottle(World, b).esc.targetThrottle]_vars

=============================================================================
